---- MODULE Spec2Model ----
(***************************************************************************)
(* Model of the HiPS tile cache and progressive loader of src/src/hips.c.  *)
(*                                                                         *)
(* Spec has one action per entry point the consumer calls (hips_is_ready, *)
(* hips_get_tile, hips_get_tile_texture) and one per background worker     *)
(* (load_tile_worker, load_allsky_worker); hips_add_manual_tile is reached *)
(* through add_allsky_tiles, its caller in hips.c.  The cache (cache_get / *)
(* cache_add / cache_set_cost), the worker primitive (worker_init /        *)
(* worker_iter / worker_is_running), the byte fetch (asset_get_data2) and  *)
(* the mat3 functions are not part of hips.c; they are modelled from       *)
(* sections 4.1, 4.4, 5 and 6 of the specification.                        *)
(*                                                                         *)
(* More specifications run the functions that work on their own locals:   *)
(* SpecUV the UV matrix of the fallback walk (get_child_uv_mat),           *)
(* SpecTraverse the counters of the queue of hips_traverse, SpecWalk the   *)
(* nodes hips_traverse hands to a callback, SpecManifest property_handler  *)
(* over the lines of a properties file.  SpecRace runs threaded           *)
(* hips_get_tile calls and their workers on a ready survey with more       *)
(* tiles than the cache holds, so that evictions happen.                   *)
(*                                                                         *)
(* Costs are counted in coarse units: sizeof(tile_t) is 0 units ("zero     *)
(* initial cost"), a decoded image costs 1..MaxCost units and the budget   *)
(* CACHE_SIZE is a few units.  assert() is modelled as compiled in: a      *)
(* failing assertion aborts the process (variable aborted).                *)
(***************************************************************************)
EXTENDS Integers, Sequences, FiniteSets, TLC

VARIABLES
    cache,      \* g_cache: sequence of entries, least recently used first
    hips,       \* the surveys: hips[h] is the hips_t created for survey h
    nalloc,     \* number of tile_t allocated so far for image tiles
    aborted,    \* "" or the assertion that aborted the process
    uv,         \* the UV matrix of one fallback walk (SpecUV)
    trav,       \* the queue of one hips_traverse call (SpecTraverse)
    manifest,   \* one properties file being parsed (SpecManifest)
    walk        \* one hips_traverse call with its nodes (SpecWalk)

\* The variables of the specifications of the pure functions.
others == <<uv, trav, manifest, walk>>
vars == <<cache, hips, nalloc, aborted, uv, trav, manifest, walk>>

----------------------------------------------------------------------------
(* Bounds of the model. *)

\* Total number of image tiles (tile_t) allocated in one run.
MaxAlloc == 2
\* Largest cost (in model units) create_tile reports for one image.
MaxCost == 2

(* Program constants. *)

\* Budget of the cache, in model cost units.
CACHE_SIZE == 3
\* Return value of a destroy hook that refuses the eviction.
CACHE_KEEP == 1
\* Bit index of TILE_LOAD_ERROR; the bits 0..3 are TILE_NO_CHILD_0..3.
TILE_LOAD_ERROR == 4
\* Default hips->order_min set by hips_create.
DefaultOrderMin == 3
\* Number of virtual allsky tiles (pix 0..11 at order -1).
NbAllsky == 12
\* sizeof(tile_t) in model cost units.
TileSize == 0

\* The surveys of the model.
Hips == {1}
\* The quadtree nodes the consumer asks for: (2,1) <- (3,5) <- (4,20),(4,21).
Nodes == {<<2, 1>>, <<3, 5>>, <<4, 20>>, <<4, 21>>}
\* The calls hips_get_tile(order, pix, flags) the consumer makes: every node
\* plainly, in a thread and cache only; the allsky is forced on node (3,5).
Calls ==
    {<<n[1], n[2], fl>> :
        n \in Nodes, fl \in {{}, {"LOAD_IN_THREAD"}, {"CACHED_ONLY"}}}
    \cup {<<3, 5, {"FORCE_USE_ALLSKY"}>>,
          <<3, 5, {"FORCE_USE_ALLSKY", "LOAD_IN_THREAD"}>>}
\* Status codes asset_get_data2 may answer with (0: still loading).
Codes == {0, 200, 404, 500, 598}
\* Transparency summaries create_tile may report (sets of quadrants).
Transp == {{}, {1}}
\* The manifests a properties file may hold: hips_order, hips_order_min,
\* hips_tile_format (order 0: the file has no hips_order line).
Manifests == {[order |-> 0, order_min |-> 3, ext |-> "jpg"],
              [order |-> 3, order_min |-> 3, ext |-> "eph"],
              [order |-> 4, order_min |-> 3, ext |-> "png"]}

----------------------------------------------------------------------------
(* Payloads, loaders, tiles. *)

NULL == [k |-> "null", n |-> 0]
ImgPayload(n) == [k |-> "img", n |-> n]
\* The empty img_tile_t create_img_tile returns for an order -1 tile.
AllskyPayload(h, pix) == [k |-> "allsky", n |-> h * 16 + pix]

NoLoader == [st |-> "none", cost |-> 0]

\* Outcome of one create_tile call on image bytes.
DecodeFail == [ok |-> FALSE, cost |-> 0, transp |-> {}]
DecodeOutcomes ==
    {DecodeFail} \cup
    {[ok |-> TRUE, cost |-> c, transp |-> t] : c \in 1..MaxCost, t \in Transp}
\* On the synchronous path the reported cost is never used: one value is enough.
SyncOutcomes == {d \in DecodeOutcomes : d.cost <= 1}

Sat(n) == IF n >= 2 THEN 2 ELSE n + 1

\* calloc(1, sizeof(tile_t)) followed by the assignments of pos and hips.
\* id tells the allocations apart (0 for the virtual allsky tiles); ndec and
\* nfin count the create_tile calls and the finalisations of this tile.
\* tex and allsky_tex are the two textures of the img_tile_t payload.
NewTile(h, order, pix, id) ==
    [pos |-> <<order, pix>>, hips |-> h, flags |-> {}, data |-> NULL,
     loader |-> NoLoader, id |-> id, ndec |-> 0, nfin |-> 0,
     tex |-> FALSE, allsky_tex |-> FALSE]

----------------------------------------------------------------------------
(* The worker primitive (modelled from the specification, sections 5, 6). *)

\* worker_is_running: true only while the worker's function executes.
worker_is_running(st) == st = "running"

\* worker_iter: non blocking poll.  Starts a worker that was only
\* initialised; returns the new state and whether the worker is done.
worker_iter(st) ==
    IF st = "init" THEN [st |-> "running", done |-> FALSE]
    ELSE IF st = "running" THEN [st |-> "running", done |-> FALSE]
    ELSE [st |-> "done", done |-> TRUE]

----------------------------------------------------------------------------
(* The tile cache (modelled from the specification, section 4.1). *)

\* delete_img_tile: releases the textures and the payload, never vetoes.
delete_img_tile(data) == 0

\* del_tile without "if (tile->loader && worker_is_running(...))".
del_tile_NoVeto(tile) ==
    IF tile.data # NULL /\ delete_img_tile(tile.data) = CACHE_KEEP
    THEN CACHE_KEEP
    ELSE 0

\* del_tile: the destroy hook hips.c registers for every tile.
del_tile(tile) ==
    IF tile.loader.st # "none" /\ worker_is_running(tile.loader.st)
    THEN CACHE_KEEP
    ELSE IF tile.data # NULL /\ delete_img_tile(tile.data) = CACHE_KEEP
    THEN CACHE_KEEP
    ELSE 0

RECURSIVE SumCost(_)
SumCost(c) == IF c = <<>> THEN 0 ELSE Head(c).cost + SumCost(Tail(c))

RemoveAt(c, i) == SubSeq(c, 1, i - 1) \o SubSeq(c, i + 1, Len(c))

\* Index of the entry a lookup of key finds (0: none).  When a key was put
\* twice the most recent entry is the one found.
Find(c, key) ==
    LET S == {i \in 1..Len(c) : c[i].key = key}
    IN IF S = {} THEN 0 ELSE CHOOSE i \in S : \A j \in S : j <= i

\* cache_get: the entry found becomes the most recently used one.
cache_get(c, key) ==
    LET i == Find(c, key)
    IN IF i = 0 THEN c ELSE Append(RemoveAt(c, i), c[i])

\* Eviction: candidates are taken least recently used first, a candidate
\* whose destroy hook answers CACHE_KEEP stays; it stops as soon as the
\* budget is respected.  The entry just added is not a candidate.
RECURSIVE cleanup(_, _)
cleanup(c, i) ==
    IF SumCost(c) <= CACHE_SIZE \/ i >= Len(c) THEN c
    ELSE IF del_tile(c[i].tile) = CACHE_KEEP THEN cleanup(c, i + 1)
    ELSE cleanup(RemoveAt(c, i), i)

\* cache_add: registers the tile as most recently used, then evicts.
cache_add(c, key, tile, cost) ==
    cleanup(Append(c, [key |-> key, cost |-> cost, tile |-> tile]), 1)

\* cache_set_cost: changes the accounted cost of the entry of key.
cache_set_cost(c, key, cost) ==
    LET i == Find(c, key)
    IN [c EXCEPT ![i].cost = cost]

\* The most recently used entry: the tile a lookup or an add just returned.
LastTile(c) == c[Len(c)].tile
SetLastTile(c, tile) == [c EXCEPT ![Len(c)].tile = tile]

----------------------------------------------------------------------------
(* Surveys. *)

\* hips_create: calloc, ext "jpg", order_min 3, hash of the url.
\* req is the state of the requests of the survey in the fetch layer; nreq,
\* ninit, nadd and was_ready record what happened so far: the requests
\* started, the worker_init and add_allsky_tiles calls, and whether
\* hips_is_ready returned true.
hips_create(url) ==
    [url |-> url, hash |-> url, error |-> FALSE, props |-> FALSE,
     order |-> 0, order_min |-> DefaultOrderMin, ext |-> "jpg",
     allsky |-> [fn |-> "null", not_available |-> FALSE, data |-> FALSE],
     req |-> [properties |-> "none", allsky |-> "none"],
     nreq |-> [properties |-> 0, allsky |-> 0],
     ninit |-> 0, nadd |-> 0, was_ready |-> FALSE]

\* The running context of a call: the program state it works on, the
\* fetches it issued so far (fet), the create_tile calls it ran inline
\* (ndec) and the assertion that failed, if any; orphan tells whether it
\* fetched a tile above order_min whose parent was not a finalised tile of
\* the cache at that moment.
Ctx(c, hp, na) ==
    [cache |-> c, hips |-> hp, nalloc |-> na, fet |-> {}, ndec |-> 0,
     abort |-> "", orphan |-> FALSE]

Fetch(x, kind, h, order, pix, code) ==
    [x EXCEPT !.fet = @ \cup {<<kind, h, order, pix, code>>}]

\* asset_get_data2 on the manifest or the Allsky image of h: a call while
\* the request of the url is in flight polls it, any other call starts a
\* request (ASSET_USED_ONCE: a delivered asset is not kept).
Request(x, kind, h, code) ==
    [Fetch(x, kind, h, 0, 0, code) EXCEPT
        !.hips[h].nreq[kind] = IF x.hips[h].req[kind] = "pending" THEN @
                               ELSE Sat(@),
        !.hips[h].req[kind] = IF code = 0 THEN "pending" ELSE "done"]

----------------------------------------------------------------------------
(* hips_add_manual_tile and the virtual allsky tiles. *)

\* hips_add_manual_tile: dec is the outcome of create_tile on the data
\* (an order -1 tile gets an empty image tile and cannot fail).
hips_add_manual_tile(x, h, order, pix, dec) ==
    LET key == <<x.hips[h].hash, order, pix>>
        found == Find(x.cache, key) # 0
        c1 == cache_get(x.cache, key)
        ok == order = -1 \/ dec.ok
        id == IF order = -1 THEN 0 ELSE x.nalloc + 1
        data == IF order = -1 THEN AllskyPayload(h, pix) ELSE ImgPayload(id)
        cost == IF order = -1 THEN 0 ELSE dec.cost
        tile == [NewTile(h, order, pix, id) EXCEPT
                    !.data = data,
                    !.flags = IF order = -1 THEN {} ELSE dec.transp,
                    !.ndec = 1]
    IN IF x.abort # "" THEN x
       ELSE IF found
       THEN [x EXCEPT !.cache = c1,
                      !.abort = "hips_add_manual_tile: assert(!tile)"]
       ELSE IF ~ok
       THEN [x EXCEPT !.ndec = Sat(@),
                      !.abort = "hips_add_manual_tile: assert(tile_data)"]
       ELSE [x EXCEPT !.cache = cache_add(c1, key, tile, TileSize + cost),
                      !.nalloc = IF order = -1 THEN @ ELSE @ + 1,
                      !.ndec = Sat(@)]

\* add_allsky_tiles: the loop over pix, from pix on.
RECURSIVE add_allsky_tiles(_, _, _)
add_allsky_tiles(x, h, pix) ==
    IF pix >= NbAllsky THEN x
    ELSE add_allsky_tiles(hips_add_manual_tile(x, h, -1, pix, DecodeFail),
                          h, pix + 1)

----------------------------------------------------------------------------
(* The survey manager: parse_properties, hips_update, hips_is_ready. *)

\* Answers of the properties fetch: still loading, failed, or a manifest.
PropsOutcomes ==
    {[st |-> "pending", m |-> CHOOSE m \in Manifests : TRUE],
     [st |-> "error", m |-> CHOOSE m \in Manifests : TRUE]}
    \cup {[st |-> "ok", m |-> m] : m \in Manifests}

\* property_handler over the lines of the manifest m.
property_handler(hp, m) ==
    [hp EXCEPT !.props = TRUE,
               !.order = m.order,
               !.order_min = m.order_min,
               !.ext = m.ext,
               !.allsky.not_available = IF m.ext = "eph" THEN TRUE ELSE @]

\* parse_properties: err is the value returned (-1 when the fetch failed).
parse_properties(x, h, pr) ==
    LET code == IF pr.st = "pending" THEN 0
                ELSE IF pr.st = "error" THEN 404 ELSE 200
        x1 == Request(x, "properties", h, code)
    IN IF pr.st = "error" THEN [x |-> x1, err |-> -1]
       ELSE IF pr.st = "pending" THEN [x |-> x1, err |-> 0]
       ELSE [x |-> [x1 EXCEPT !.hips[h] = property_handler(@, pr.m)],
             err |-> 0]

\* allsky_done without "hips->allsky.worker.fn = NULL".
allsky_done_KeepsWorker(x1, h) ==
    IF x1.abort # "" THEN [x |-> x1, ret |-> FALSE]
    ELSE [x |-> x1, ret |-> TRUE]

\* hips_update once the allsky worker is done: x1 is the context after
\* add_allsky_tiles (or after not_available was set).
allsky_done(x1, h) ==
    IF x1.abort # "" THEN [x |-> x1, ret |-> FALSE]
    ELSE [x |-> [x1 EXCEPT !.hips[h].allsky.fn = "null"], ret |-> TRUE]

\* hips_update after the fetch of the Allsky image answered code.
allsky_fetched(x1, h, code) ==
    [x |-> IF code = 200 THEN [x1 EXCEPT !.hips[h].allsky.fn = "init",
                                        !.hips[h].ninit = Sat(@)]
           ELSE IF code # 0
           THEN [x1 EXCEPT !.hips[h].allsky.not_available = TRUE]
           ELSE x1,
     ret |-> FALSE]

\* The allsky part of hips_update (from "Get the allsky before anything
\* else" on): code is the answer of the Allsky fetch if one is issued.
update_allsky(x, h, code) ==
    LET a == x.hips[h].allsky
    IN IF a.fn = "null" /\ ~a.not_available /\ ~a.data
       THEN allsky_fetched(Request(x, "allsky", h, code), h, code)
       ELSE IF a.fn # "null"
       THEN IF ~worker_iter(a.fn).done
            THEN [x |-> [x EXCEPT !.hips[h].allsky.fn = worker_iter(a.fn).st],
                  ret |-> FALSE]
            ELSE allsky_done(IF a.data
                             THEN add_allsky_tiles(
                                    [x EXCEPT !.hips[h].nadd = Sat(@)], h, 0)
                             ELSE [x EXCEPT
                                    !.hips[h].allsky.not_available = TRUE],
                             h)
       ELSE [x |-> x, ret |-> TRUE]

\* hips_update from "if (err)" on: p is the outcome of parse_properties
\* (err 0 and nothing done when the properties were parsed before).
after_parse(p, h, u) ==
    IF p.err # 0 THEN [x |-> [p.x EXCEPT !.hips[h].error = TRUE],
                       ret |-> FALSE]
    ELSE IF ~p.x.hips[h].props THEN [x |-> p.x, ret |-> FALSE]
    ELSE update_allsky(p.x, h, u.allsky)

\* hips_update without "if (hips->error) return false".
hips_update_IgnoresError(x, h, u) ==
    IF x.abort # "" THEN [x |-> x, ret |-> FALSE]
    ELSE after_parse(IF ~x.hips[h].props
                     THEN parse_properties(x, h, u.props)
                     ELSE [x |-> x, err |-> 0], h, u)

\* hips_update: u.props and u.allsky are the answers of the two fetches.
hips_update(x, h, u) ==
    IF x.abort # "" \/ x.hips[h].error THEN [x |-> x, ret |-> FALSE]
    ELSE after_parse(IF ~x.hips[h].props
                     THEN parse_properties(x, h, u.props)
                     ELSE [x |-> x, err |-> 0], h, u)

\* The outcome r of hips_update, with was_ready set when it is true.
returned_ready(r, h) ==
    IF r.ret THEN [r EXCEPT !.x.hips[h].was_ready = TRUE] ELSE r

\* hips_is_ready
hips_is_ready(x, h, u) == returned_ready(hips_update(x, h, u), h)

----------------------------------------------------------------------------
(* The tile resolver: hips_get_tile_ and hips_get_tile. *)

\* Answer of one tile fetch: the status code and, when bytes came back,
\* the outcome create_tile will have on them.
NoFetch == [code |-> 0, dec |-> DecodeFail]
FetchOutcomes ==
    {[code |-> c, dec |-> DecodeFail] : c \in Codes \ {200}}
    \cup {[code |-> 200, dec |-> d] : d \in SyncOutcomes}

Res(x, tile, code) == [x |-> x, tile |-> tile, code |-> code]

\* The cache key: to handle allsky textures the order -1 is used.
TileKey(hp, order, pix, flags) ==
    <<hp.hash, IF "FORCE_USE_ALLSKY" \in flags THEN -1 ELSE order, pix>>

\* poll_loader without "tile->loader = NULL".
poll_loader_KeepsLoader(x, key) ==
    LET t == LastTile(x.cache)
        w == worker_iter(t.loader.st)
    IN IF ~w.done
       THEN Res([x EXCEPT !.cache =
                    SetLastTile(@, [t EXCEPT !.loader.st = w.st])],
                FALSE, 0)
       ELSE Res([x EXCEPT !.cache =
                    SetLastTile(cache_set_cost(@, key, t.loader.cost),
                                [t EXCEPT !.nfin = Sat(@)])],
                TRUE, 200)

\* "Got a tile but it is still loading": the poll of the loader of the
\* tile just looked up (the most recently used entry) and, once the worker
\* is done, the finalisation.
poll_loader(x, key) ==
    LET t == LastTile(x.cache)
        w == worker_iter(t.loader.st)
    IN IF ~w.done
       THEN Res([x EXCEPT !.cache =
                    SetLastTile(@, [t EXCEPT !.loader.st = w.st])],
                FALSE, 0)
       ELSE Res([x EXCEPT !.cache =
                    SetLastTile(cache_set_cost(@, key, t.loader.cost),
                                [t EXCEPT !.loader = NoLoader,
                                          !.nfin = Sat(@)])],
                TRUE, 200)

\* The lookup at the head of hips_get_tile_, when the key is in the cache.
lookup_hit(x, key) ==
    LET x1 == [x EXCEPT !.cache = cache_get(@, key)]
    IN IF LastTile(x1.cache).loader.st # "none" THEN poll_loader(x1, key)
       ELSE Res(x1, TRUE, 200)

\* is_cached without "if (tile) { *code = 200; return tile; }": only a tile
\* that is still loading ends the call.
is_cached_OnlyWhileLoading(x, key) ==
    LET i == Find(x.cache, key)
    IN i # 0 /\ x.cache[i].tile.loader.st # "none"

\* "if (tile) { *code = 200; return tile; }" and the loader test before it:
\* the lookup of key ends the call.
is_cached(x, key) == Find(x.cache, key) # 0

\* no_child testing the quadrant of the parent instead of the node's.
no_child_ParentQuadrant(parent, pix) == ((pix \div 4) % 4) \in parent.flags

\* "parent->flags & (TILE_NO_CHILD_0 << (pix % 4))"
no_child(parent, pix) == (pix % 4) \in parent.flags

\* mark_no_child setting the bit of the quadrant of the parent.
mark_no_child_ParentQuadrant(parent, pix) ==
    [parent EXCEPT !.flags = @ \cup {(pix \div 4) % 4}]

\* "parent->flags |= (TILE_NO_CHILD_0 << (pix % 4))"
mark_no_child(parent, pix) == [parent EXCEPT !.flags = @ \cup {pix % 4}]

\* out_of_range without the test of order_min.
out_of_range_MaxOnly(hp, order) == hp.order # 0 /\ order > hp.order

\* "Don't bother looking for tile outside the hips order range."
out_of_range(hp, order) ==
    (hp.order # 0 /\ order > hp.order) \/ order < hp.order_min

\* The synchronous branch: create_tile runs inline on the tile just added
\* (the most recently used entry of x) and the tile is returned.
decode_inline(x, fo) ==
    Res([x EXCEPT !.cache =
            SetLastTile(@, [LastTile(@) EXCEPT
                !.data = IF fo.dec.ok THEN ImgPayload(LastTile(x.cache).id)
                         ELSE NULL,
                !.flags = (@ \cup fo.dec.transp) \cup
                          (IF fo.dec.ok THEN {} ELSE {TILE_LOAD_ERROR}),
                !.ndec = Sat(@)]),
                 !.nalloc = @ + 1,
                 !.ndec = Sat(@)],
        TRUE, fo.code)

\* The threaded branch: a loader is attached to the tile just added, its
\* worker initialised, and the call returns NULL with *code = 0.
start_loader(x) ==
    Res([x EXCEPT !.cache =
            SetLastTile(@, [LastTile(@) EXCEPT
                !.loader = [st |-> "init", cost |-> 0]]),
                 !.nalloc = @ + 1],
        FALSE, 0)

\* The tail of hips_get_tile_, once bytes came back: the tile is created
\* and added, then decoded inline or handed to a worker.
create_and_load(x, h, order, pix, flags, key, fo) ==
    IF "LOAD_IN_THREAD" \notin flags
    THEN decode_inline(
            [x EXCEPT !.cache = cache_add(@, key,
                NewTile(h, order, pix, x.nalloc + 1), TileSize + 0)], fo)
    ELSE start_loader(
            [x EXCEPT !.cache = cache_add(@, key,
                NewTile(h, order, pix, x.nalloc + 1), TileSize + 0)])

\* "if (parent) parent->flags |= ...; return NULL": q is the outcome of the
\* second resolution of the parent.
record_not_found(q, pix, code) ==
    IF q.tile
    THEN Res([q.x EXCEPT !.cache =
                SetLastTile(@, mark_no_child(LastTile(@), pix))],
             FALSE, code)
    ELSE Res(q.x, FALSE, code)

RECURSIVE hips_get_tile_(_, _, _, _, _, _, _)

\* after_fetch with 'if ((*code) / 100 == 4)' taken for every failure.
after_fetch_ErrorIsNotFound(x1, h, order, pix, flags, u, f, fo) ==
    IF fo.code = 0 THEN Res(x1, FALSE, 0)
    ELSE IF fo.code # 200
    THEN IF order > x1.hips[h].order_min
         THEN record_not_found(
                hips_get_tile_(x1, h, order - 1, pix \div 4, {}, u, f),
                pix, fo.code)
         ELSE Res(x1, FALSE, fo.code)
    ELSE create_and_load(x1, h, order, pix, flags,
                         TileKey(x1.hips[h], order, pix, flags), fo)

\* hips_get_tile_ from the answer fo of asset_get_data2 on: x1 is the
\* context after the fetch.
after_fetch(x1, h, order, pix, flags, u, f, fo) ==
    IF fo.code = 0 THEN Res(x1, FALSE, 0)
    ELSE IF fo.code \div 100 = 4
    THEN IF order > x1.hips[h].order_min
         THEN record_not_found(
                hips_get_tile_(x1, h, order - 1, pix \div 4, {}, u, f),
                pix, fo.code)
         ELSE Res(x1, FALSE, fo.code)
    ELSE IF fo.code # 200 THEN Res(x1, FALSE, fo.code)
    ELSE create_and_load(x1, h, order, pix, flags,
                         TileKey(x1.hips[h], order, pix, flags), fo)

\* The parent of node (order, pix) is in the cache, its decode finalised.
ParentIsFinal(x, h, order, pix) ==
    LET j == Find(x.cache, <<x.hips[h].hash, order - 1, pix \div 4>>)
    IN j # 0 /\ x.cache[j].tile.loader.st = "none"

\* asset_get_data2 on the url of tile (order, pix), answering code.
TileFetch(x, h, order, pix, code) ==
    [Fetch(x, "tile", h, order, pix, code) EXCEPT
        !.orphan = \/ @
                   \/ /\ order > x.hips[h].order_min
                      /\ ~ParentIsFinal(x, h, order, pix)]

\* after_parent going on with a parent that is still loading:
\* "if (!parent) return NULL" only when the cache has no parent tile.
after_parent_IgnoresPending(p, h, order, pix, flags, u, f) ==
    IF ~p.tile /\ ~(/\ order > p.x.hips[h].order_min
                    /\ p.x.cache # <<>>
                    /\ LastTile(p.x.cache).loader.st # "none")
    THEN Res(p.x, FALSE, 0)
    ELSE IF order > p.x.hips[h].order_min
            /\ no_child(LastTile(p.x.cache), pix)
    THEN Res(p.x, FALSE, 404)
    ELSE after_fetch(TileFetch(p.x, h, order, pix, f[order].code),
                     h, order, pix, flags, u, f, f[order])

\* hips_get_tile_ from the parent test on: p is the outcome of the
\* resolution of the parent (a tile with code 0 when order is order_min).
after_parent(p, h, order, pix, flags, u, f) ==
    IF ~p.tile THEN Res(p.x, FALSE, 0)
    ELSE IF order > p.x.hips[h].order_min
            /\ no_child(LastTile(p.x.cache), pix)
    THEN Res(p.x, FALSE, 404)
    ELSE after_fetch(TileFetch(p.x, h, order, pix, f[order].code),
                     h, order, pix, flags, u, f, f[order])

\* hips_get_tile_ from "if (!hips_is_ready(hips)) return NULL" on: r is the
\* outcome of hips_is_ready.
after_ready(r, h, order, pix, flags, u, f) ==
    IF ~r.ret THEN Res(r.x, FALSE, 0)
    ELSE IF out_of_range(r.x.hips[h], order) THEN Res(r.x, FALSE, 404)
    ELSE after_parent(
            IF order > r.x.hips[h].order_min
            THEN hips_get_tile_(r.x, h, order - 1, pix \div 4, {}, u, f)
            ELSE Res(r.x, TRUE, 0),
            h, order, pix, flags, u, f)

\* hips_get_tile_: u answers the fetches of hips_update, f[o] the fetch of
\* the tile of order o.  The result holds the new context, whether a tile
\* is returned (it is then the most recently used entry) and *code.
hips_get_tile_(x, h, order, pix, flags, u, f) ==
    IF is_cached(x, TileKey(x.hips[h], order, pix, flags))
    THEN lookup_hit(x, TileKey(x.hips[h], order, pix, flags))
    ELSE IF "CACHED_ONLY" \in flags THEN Res(x, FALSE, 0)
    ELSE after_ready(hips_is_ready(x, h, u), h, order, pix, flags, u, f)

\* The two assertions of hips_get_tile and its return value; r is the
\* outcome of hips_get_tile_.
checked_result(r) ==
    IF r.x.abort # "" THEN [x |-> r.x, ret |-> NULL, code |-> r.code]
    ELSE IF r.code = 200 /\ ~(r.tile /\ LastTile(r.x.cache).data # NULL)
    THEN [x |-> [r.x EXCEPT !.abort =
                    "hips_get_tile: assert(tile && tile->data)"],
          ret |-> NULL, code |-> r.code]
    ELSE IF r.code = 0 /\ r.tile
    THEN [x |-> [r.x EXCEPT !.abort = "hips_get_tile: assert(!tile)"],
          ret |-> NULL, code |-> r.code]
    ELSE [x |-> r.x,
          ret |-> IF r.tile THEN LastTile(r.x.cache).data ELSE NULL,
          code |-> r.code]

\* hips_get_tile: the two assertions, then tile ? tile->data : NULL.
hips_get_tile(x, h, order, pix, flags, u, f) ==
    checked_result(hips_get_tile_(x, h, order, pix, flags, u, f))

----------------------------------------------------------------------------
(* Texture selection: get_child_uv_mat and hips_get_tile_texture. *)

\* A 3x3 matrix of doubles is kept exactly: the matrix a / den, a a tuple of
\* three rows of integers.  (Halving and adding 0 or 1 are exact on doubles.)
\* The mat3 functions are those of the vector library: m is applied to the
\* column vector (u, v, 1).
Mat(den, a) == [den |-> den, a |-> a]

MatProduct(a, b) ==
    [r \in 1..3 |-> [c \in 1..3 |->
        a[r][1] * b[1][c] + a[r][2] * b[2][c] + a[r][3] * b[3][c]]]

\* mat3_set_identity.
mat3_identity == Mat(1, <<<<1, 0, 0>>, <<0, 1, 0>>, <<0, 0, 1>>>>)

\* mat3_mul(a, b, out): out = a . b.
mat3_mul(a, b) == Mat(a.den * b.den, MatProduct(a.a, b.a))

\* The number n / d.
Frac(n, d) == [n |-> n, d |-> d]

\* mat3_iscale(m, x, y, z): m = m . diag(x, y, z).
mat3_iscale(m, x, y, z) ==
    mat3_mul(m, Mat(x.d * y.d * z.d,
                    <<<<x.n * y.d * z.d, 0, 0>>,
                      <<0, y.n * x.d * z.d, 0>>,
                      <<0, 0, z.n * x.d * y.d>>>>))

\* mat3_itranslate(m, x, y): m = m . translation(x, y).
mat3_itranslate(m, x, y) ==
    mat3_mul(m, Mat(1, <<<<1, 0, x>>, <<0, 1, y>>, <<0, 0, 1>>>>))

\* mat3_mul_vec2(m, v): the numerators of m . (v[1], v[2], 1) over m.den.
mat3_mul_vec2(m, v) ==
    <<m.a[1][1] * v[1] + m.a[1][2] * v[2] + m.a[1][3],
      m.a[2][1] * v[1] + m.a[2][2] * v[2] + m.a[2][3]>>

\* get_child_uv_mat with the product taken the other way round:
\* mat3_mul(m, tmp, out).
get_child_uv_mat_Reversed(i, m) ==
    mat3_mul(m,
             mat3_itranslate(mat3_iscale(mat3_identity, Frac(1, 2),
                                         Frac(1, 2), Frac(1, 1)),
                             i \div 2, i % 2))

\* get_child_uv_mat: tmp = identity scaled by (0.5, 0.5, 1.0) and translated
\* by (i / 2, i % 2); out = tmp . m.
get_child_uv_mat(i, m) ==
    mat3_mul(mat3_itranslate(mat3_iscale(mat3_identity, Frac(1, 2),
                                         Frac(1, 2), Frac(1, 1)),
                             i \div 2, i % 2),
             m)

NoTex == [k |-> "none"]

\* What hips_get_tile_texture gives back: the texture, *loading_complete,
\* the node the projection is built for and the UV transform; used tells
\* whether a tile was picked (it is then the most recently used entry).
TexRes(x, tex, lc, rend_order, rend_pix, mat, used) ==
    [x |-> x, tex |-> tex, loading_complete |-> lc,
     rend_order |-> rend_order, rend_pix |-> rend_pix, mat |-> mat,
     used |-> used]

TexMin(a, b) == IF a < b THEN a ELSE b

\* with_tex without the test "rend_tile->img".
with_tex_NoImage(t) == [t EXCEPT !.tex = TRUE]

\* "Create texture if needed" on the payload of tile t.
with_tex(t) ==
    IF t.data.k = "img" /\ ~t.tex THEN [t EXCEPT !.tex = TRUE] ELSE t

\* "Create allsky texture if needed" on the payload of tile t.
with_allsky_tex(t, hp, rend_order, flags) ==
    IF /\ "FORCE_USE_ALLSKY" \in flags /\ rend_order = hp.order_min
       /\ ~t.tex /\ ~t.allsky_tex
    THEN [t EXCEPT !.allsky_tex = TRUE] ELSE t

\* "tex = rend_tile->tex ?: rend_tile->allsky_tex" for tile t of survey hp.
tex_of(t, hp) ==
    IF t.tex THEN [k |-> "tex", id |-> t.id, pos |-> t.pos, hips |-> t.hips]
    ELSE IF t.allsky_tex
    THEN [k |-> "allsky_tex", hips |-> t.hips, mosaic |-> hp.allsky.data]
    ELSE NoTex

\* hips_get_tile_texture once rend_tile was found (the most recently used
\* entry of x): loading_complete, the textures, the result.
tex_pick(x, h, order, rend_order, rend_pix, flags, mat) ==
    TexRes([x EXCEPT !.cache =
                SetLastTile(@, with_allsky_tex(with_tex(LastTile(@)),
                                               x.hips[h], rend_order, flags))],
           tex_of(with_allsky_tex(with_tex(LastTile(x.cache)),
                                  x.hips[h], rend_order, flags), x.hips[h]),
           rend_order = TexMin(order, x.hips[h].order),
           rend_order, rend_pix, mat, TRUE)

\* tex_walk without "rend_order = order; rend_pix = pix" when no tile is found.
RECURSIVE tex_walk_NoReset(_, _, _, _, _, _, _, _, _, _)
tex_walk_NoReset(t, h, order, pix, rend_order, rend_pix, flags, mat, u, f) ==
    IF t.x.abort # ""
    THEN TexRes(t.x, NoTex, FALSE, order, pix, mat3_identity, FALSE)
    ELSE IF t.ret = NULL /\ rend_order > t.x.hips[h].order_min
    THEN tex_walk_NoReset(IF rend_order - 1 > t.x.hips[h].order
                          THEN [x |-> t.x, ret |-> NULL, code |-> t.code]
                          ELSE hips_get_tile(t.x, h, rend_order - 1,
                                             rend_pix \div 4, flags, u, f),
                          h, order, pix, rend_order - 1, rend_pix \div 4,
                          flags, get_child_uv_mat(rend_pix % 4, mat), u, f)
    ELSE IF t.ret = NULL
    THEN TexRes(t.x, NoTex, FALSE, rend_order, rend_pix, mat3_identity, FALSE)
    ELSE tex_pick(t.x, h, order, rend_order, rend_pix, flags, mat)

\* The fallback loop "while (!rend_tile && rend_order > hips->order_min)":
\* t is the outcome of the last hips_get_tile (ret NULL when none was made).
RECURSIVE tex_walk(_, _, _, _, _, _, _, _, _, _)
tex_walk(t, h, order, pix, rend_order, rend_pix, flags, mat, u, f) ==
    IF t.x.abort # ""
    THEN TexRes(t.x, NoTex, FALSE, order, pix, mat3_identity, FALSE)
    ELSE IF t.ret = NULL /\ rend_order > t.x.hips[h].order_min
    THEN tex_walk(IF rend_order - 1 > t.x.hips[h].order
                  THEN [x |-> t.x, ret |-> NULL, code |-> t.code]
                  ELSE hips_get_tile(t.x, h, rend_order - 1,
                                     rend_pix \div 4, flags, u, f),
                  h, order, pix, rend_order - 1, rend_pix \div 4, flags,
                  get_child_uv_mat(rend_pix % 4, mat), u, f)
    ELSE IF t.ret = NULL
    THEN TexRes(t.x, NoTex, FALSE, order, pix, mat3_identity, FALSE)
    ELSE tex_pick(t.x, h, order, rend_order, rend_pix, flags, mat)

\* tex_after_exact without "*loading_complete = true" for a missing tile.
tex_after_exact_NotComplete(t, h, order, pix, flags, u, f) ==
    IF t.x.abort = "" /\ t.ret = NULL /\ t.code # 0 /\ t.code # 598
    THEN TexRes(t.x, NoTex, FALSE, order, pix, mat3_identity, FALSE)
    ELSE tex_walk(t, h, order, pix, order, pix, flags, mat3_identity, u, f)

\* hips_get_tile_texture after the resolution t of the exact node:
\* "if (!tile && code && code != 598) loading_complete = true, goto end".
tex_after_exact(t, h, order, pix, flags, u, f) ==
    IF t.x.abort = "" /\ t.ret = NULL /\ t.code # 0 /\ t.code # 598
    THEN TexRes(t.x, NoTex, TRUE, order, pix, mat3_identity, FALSE)
    ELSE tex_walk(t, h, order, pix, order, pix, flags, mat3_identity, u, f)

\* hips_get_tile_texture from "if (!hips_is_ready(hips)) goto end" on.
tex_after_ready(r, h, order, pix, flags, u, f) ==
    IF r.x.abort # "" \/ ~r.ret
    THEN TexRes(r.x, NoTex, FALSE, order, pix, mat3_identity, FALSE)
    ELSE IF order <= r.x.hips[h].order
    THEN tex_after_exact(hips_get_tile(r.x, h, order, pix, flags, u, f),
                         h, order, pix, flags, u, f)
    ELSE tex_walk([x |-> r.x, ret |-> NULL, code |-> 0], h, order, pix,
                  order, pix, flags, mat3_identity, u, f)

\* hips_get_tile_texture: u and f answer the fetches as in hips_get_tile.
hips_get_tile_texture(x, h, order, pix, flags, u, f) ==
    tex_after_ready(hips_is_ready(x, h, u), h, order, pix, flags, u, f)

----------------------------------------------------------------------------
(* What the environment may answer during one call. *)

\* hips_update returns true on hp without issuing a fetch.
IsReadyNow(hp) ==
    /\ ~hp.error
    /\ hp.props
    /\ ~(hp.allsky.fn = "null" /\ ~hp.allsky.not_available /\ ~hp.allsky.data)
    /\ hp.allsky.fn \in {"null", "done"}

NoUpd == [props |-> [st |-> "pending", m |-> CHOOSE m \in Manifests : TRUE],
          allsky |-> 0]

\* The survey as property_handler leaves it when u answers the manifest.
AfterParse(hp, u) ==
    IF ~hp.error /\ ~hp.props /\ u.props.st = "ok"
    THEN property_handler(hp, u.props.m) ELSE hp

NeedsAllskyFetch(hp) ==
    /\ ~hp.error /\ hp.props
    /\ hp.allsky.fn = "null" /\ ~hp.allsky.not_available /\ ~hp.allsky.data

\* The answers hips_update can observe on hp: only the fetches it issues
\* are given an answer.
UpdOracles(hp) ==
    IF hp.error THEN {NoUpd}
    ELSE IF ~hp.props
    THEN UNION {{[props |-> pr, allsky |-> c] :
                    c \in IF NeedsAllskyFetch(AfterParse(hp, [props |-> pr]))
                          THEN Codes ELSE {0}} : pr \in PropsOutcomes}
    ELSE IF NeedsAllskyFetch(hp) THEN {[NoUpd EXCEPT !.allsky = c] : c \in Codes}
    ELSE {NoUpd}

NodeOrders == {n[1] : n \in Nodes}
RECURSIVE Anc(_, _)
\* pix of the ancestor k orders above.
Anc(pix, k) == IF k = 0 THEN pix ELSE Anc(pix \div 4, k - 1)

\* The functions f on S with f[o] in D[o] for every o.
RECURSIVE FunProduct(_, _)
FunProduct(S, D) ==
    IF S = {} THEN {<<>>}
    ELSE LET o == CHOOSE o \in S : TRUE
         IN {(o :> a) @@ g : a \in D[o], g \in FunProduct(S \ {o}, D)}

\* The answers one hips_get_tile call can observe: f[o] is given an answer
\* only if the call can get to the fetch of the tile of order o.
TileOracles(c, hp0, u, order, pix, flags) ==
    LET hp == AfterParse(hp0, u)
        top == /\ IsReadyNow(hp)
               /\ Find(c, TileKey(hp, order, pix, flags)) = 0
               /\ "CACHED_ONLY" \notin flags
               /\ ~out_of_range(hp, order)
        may(o) == IF o = order THEN top
                  ELSE /\ top /\ o < order /\ o >= hp.order_min
                       /\ \/ Find(c, <<hp.hash, o, Anc(pix, order - o)>>) = 0
                          \/ hp0.allsky.fn = "done"
        dom(o) == IF ~may(o) THEN {NoFetch}
                  ELSE IF o = order /\ "LOAD_IN_THREAD" \in flags
                  THEN {[code |-> k, dec |-> DecodeFail] : k \in Codes}
                  ELSE FetchOutcomes
    IN FunProduct(NodeOrders, [o \in NodeOrders |-> dom(o)])

\* The order of the first node hips_get_tile_texture resolves for a
\* request of order on survey hp.
TopOrder(hp, order) == TexMin(order, hp.order)

\* The answers one hips_get_tile_texture call can observe: f[o] is given an
\* answer only if the call can get to the fetch of the tile of order o.
TexOracles(c, hp0, u, order, pix, flags) ==
    LET hp == AfterParse(hp0, u)
        may(o) == /\ IsReadyNow(hp)
                  /\ o >= hp.order_min /\ o <= TopOrder(hp, order)
                  /\ \/ Find(c, <<hp.hash, o, Anc(pix, order - o)>>) = 0
                     \/ /\ "FORCE_USE_ALLSKY" \in flags
                        /\ Find(c, <<hp.hash, -1, Anc(pix, order - o)>>) = 0
                     \/ hp0.allsky.fn = "done"
        dom(o) == IF ~may(o) THEN {NoFetch}
                  ELSE IF o = TopOrder(hp, order) /\ "LOAD_IN_THREAD" \in flags
                  THEN {[code |-> k, dec |-> DecodeFail] : k \in Codes}
                  ELSE FetchOutcomes
    IN FunProduct(NodeOrders, [o \in NodeOrders |-> dom(o)])

\* The calls hips_get_tile_texture(order, pix, flags) the renderer makes:
\* every node as render_visitor asks for it (HIPS_LOAD_IN_THREAD), the
\* allsky forced on node (3,5), and every node without flags.
TexCalls ==
    {<<n[1], n[2], fl>> : n \in Nodes, fl \in {{}, {"LOAD_IN_THREAD"}}}
    \cup {<<3, 5, {"FORCE_USE_ALLSKY", "LOAD_IN_THREAD"}>>}

----------------------------------------------------------------------------
(* The properties file, line by line: property_handler, hips_parse_date. *)

\* A value is the tuple of its characters.
Digits == <<"0", "1", "2", "3", "4", "5", "6", "7", "8", "9">>
IsDigit(ch) == \E d \in 1..10 : Digits[d] = ch
DigitOf(ch) == (CHOOSE d \in 1..10 : Digits[d] = ch) - 1

\* The digits of v from position i on: their value after acc, and the
\* position of the first character that is no digit.
RECURSIVE ScanDigits(_, _, _)
ScanDigits(v, i, acc) ==
    IF i <= Len(v) /\ IsDigit(v[i])
    THEN ScanDigits(v, i + 1, 10 * acc + DigitOf(v[i]))
    ELSE [val |-> acc, next |-> i]

RECURSIVE SkipSpaces(_, _)
SkipSpaces(v, i) ==
    IF i <= Len(v) /\ v[i] = " " THEN SkipSpaces(v, i + 1) ELSE i

\* The conversion "%d" at position i: spaces, a sign, digits.
ScanSigned(v, i) ==
    IF i <= Len(v) /\ v[i] \in {"-", "+"}
    THEN IF i + 1 <= Len(v) /\ IsDigit(v[i + 1])
         THEN [ok |-> TRUE,
               val |-> (IF v[i] = "-" THEN -1 ELSE 1)
                       * ScanDigits(v, i + 1, 0).val,
               next |-> ScanDigits(v, i + 1, 0).next]
         ELSE [ok |-> FALSE, val |-> 0, next |-> i]
    ELSE IF i <= Len(v) /\ IsDigit(v[i])
    THEN [ok |-> TRUE, val |-> ScanDigits(v, i, 0).val,
          next |-> ScanDigits(v, i, 0).next]
    ELSE [ok |-> FALSE, val |-> 0, next |-> i]

ScanInt(v, i) == ScanSigned(v, SkipSpaces(v, i))

\* atoi: the leading integer of v, 0 when there is none.
atoi(v) == ScanInt(v, 1).val

\* strstr(v, w) != NULL.
strstr(v, w) ==
    \E i \in 1..(Len(v) - Len(w) + 1) : SubSeq(v, i, i + Len(w) - 1) = w

\* sscanf(str, "%d-%d-%dT%d:%dZ", ...): the k-th conversion, k = 1..5,
\* after the conversions before it and the literal between them.
ScanDateSeps == <<"-", "-", "T", ":">>
RECURSIVE ScanDate(_, _, _, _)
ScanDate(v, i, k, got) ==
    IF ~ScanInt(v, i).ok THEN got
    ELSE IF k = 5 THEN Append(got, ScanInt(v, i).val)
    ELSE IF /\ ScanInt(v, i).next <= Len(v)
            /\ v[ScanInt(v, i).next] = ScanDateSeps[k]
    THEN ScanDate(v, ScanInt(v, i).next + 1, k + 1,
                  Append(got, ScanInt(v, i).val))
    ELSE Append(got, ScanInt(v, i).val)

\* eraDtf2d("UTC", iy, im, id, ihr, imn, 0): the modified Julian date
\* d1 - DJM0 + d2, in minutes (a day without leap second has 1440).
eraDtf2d(iy, im, id, ihr, imn) ==
    (((1461 * (iy + (IF im <= 2 THEN -1 ELSE 0) + 4800)) \div 4)
     + ((367 * (im - 2 - 12 * (IF im <= 2 THEN -1 ELSE 0))) \div 12)
     - ((3 * ((iy + (IF im <= 2 THEN -1 ELSE 0) + 4900) \div 100)) \div 4)
     + id - 2432076) * 1440
    + ihr * 60 + imn

\* hips_parse_date once sscanf converted the numbers of got.
parsed_date(got) ==
    IF Len(got) # 5 THEN 0
    ELSE eraDtf2d(got[1], got[2], got[3], got[4], got[5])

\* hips_parse_date: the time in MJD (here in minutes), 0 in case of error.
hips_parse_date(str) == parsed_date(ScanDate(str, 1, 1, <<>>))

\* The fields of hips_t a properties file writes, as hips_create sets them.
ManifestFields ==
    [order |-> 0, order_min |-> DefaultOrderMin, tile_width |-> 0,
     release_date |-> 0, ext |-> "jpg", not_available |-> FALSE,
     properties |-> <<>>]

\* The hips_tile_format branch with strstr(value, "jpg") for "jpeg".
tile_format_JpgLiteral(p, value) ==
    IF strstr(value, <<"w", "e", "b", "p">>) THEN [p EXCEPT !.ext = "webp"]
    ELSE IF strstr(value, <<"j", "p", "g">>) THEN [p EXCEPT !.ext = "jpg"]
    ELSE IF strstr(value, <<"p", "n", "g">>) THEN [p EXCEPT !.ext = "png"]
    ELSE IF strstr(value, <<"e", "p", "h">>)
    THEN [p EXCEPT !.ext = "eph", !.not_available = TRUE]
    ELSE p

\* property_handler, the branch of "hips_tile_format".
tile_format(p, value) ==
    IF strstr(value, <<"w", "e", "b", "p">>) THEN [p EXCEPT !.ext = "webp"]
    ELSE IF strstr(value, <<"j", "p", "e", "g">>) THEN [p EXCEPT !.ext = "jpg"]
    ELSE IF strstr(value, <<"p", "n", "g">>) THEN [p EXCEPT !.ext = "png"]
    ELSE IF strstr(value, <<"e", "p", "h">>)
    THEN [p EXCEPT !.ext = "eph", !.not_available = TRUE]
    ELSE p

\* property_handler on one line "name = value" of the file.
property_line(p, name, value) ==
    IF name = "hips_order" THEN [p EXCEPT !.order = atoi(value)]
    ELSE IF name = "hips_order_min" THEN [p EXCEPT !.order_min = atoi(value)]
    ELSE IF name = "hips_tile_width"
    THEN [p EXCEPT !.tile_width = atoi(value)]
    ELSE IF name = "hips_release_date"
    THEN [p EXCEPT !.release_date = hips_parse_date(value)]
    ELSE IF name = "hips_tile_format" THEN tile_format(p, value)
    ELSE p

\* property_handler: json_object_push, then the line.
handle_line(p, name, value) ==
    property_line([p EXCEPT !.properties = Append(@, name)], name, value)

\* A line of a properties file, with what it means: the field it sets
\* ("none": no field) and the value that field gets, num for a number and
\* fmt for the extension.
Line(name, value, sets, num, fmt) ==
    [name |-> name, value |-> value, sets |-> sets, num |-> num, fmt |-> fmt]

\* The manifest of the specification: "hips_order = 5", "hips_order_min =
\* 2", "hips_tile_format = png", "hips_release_date = 2019-01-02T15:27Z".
ExampleManifest ==
    <<Line("hips_order", <<"5">>, "order", 5, ""),
      Line("hips_order_min", <<"2">>, "order_min", 2, ""),
      Line("hips_tile_format", <<"p", "n", "g">>, "ext", 0, "png"),
      Line("hips_release_date",
           <<"2", "0", "1", "9", "-", "0", "1", "-", "0", "2", "T",
             "1", "5", ":", "2", "7", "Z">>,
           "release_date", 58485 * 1440 + 15 * 60 + 27, "")>>

\* The other lines parsed.
OtherLines ==
    {Line("hips_order", <<"1", "1">>, "order", 11, ""),
     Line("hips_order", <<"x">>, "order", 0, ""),
     Line("hips_order_min", <<"0">>, "order_min", 0, ""),
     Line("hips_tile_width", <<"5", "1", "2">>, "tile_width", 512, ""),
     Line("hips_tile_format", <<"j", "p", "e", "g", " ", "p", "n", "g">>,
          "ext", 0, "jpg"),
     Line("hips_tile_format", <<"w", "e", "b", "p">>, "ext", 0, "webp"),
     Line("hips_tile_format", <<"e", "p", "h">>, "ext", 0, "eph"),
     Line("hips_tile_format", <<"f", "i", "t", "s">>, "none", 0, ""),
     Line("hips_tile_format", <<"j", "p", "g">>, "none", 0, ""),
     Line("hips_release_date",
          <<"2", "0", "2", "0", "-", "0", "3", "-", "0", "1">>,
          "release_date", 0, ""),
     Line("hips_frame", <<"e", "q", "u">>, "none", 0, ""),
     Line("hips_order_max", <<"9">>, "none", 0, ""),
     Line("obs_title", <<"p", "n", "g">>, "none", 0, "")}

\* Number of lines of the other files parsed.
MaxLines == 2

ExampleLines == {ExampleManifest[i] : i \in 1..Len(ExampleManifest)}

\* The files parsed: the example, and every file of MaxLines lines.
ManifestFiles ==
    {ExampleManifest}
    \cup UNION {[1..n -> OtherLines \cup ExampleLines] : n \in 1..MaxLines}

\* A parse: file the whole file, todo the lines to come, p the fields now,
\* prev the fields before the last line handled, n the lines handled.
ManifestState(file, todo, p, prev, n) ==
    [file |-> file, todo |-> todo, p |-> p, prev |-> prev, n |-> n]

ManifestIdle == ManifestState(<<>>, <<>>, ManifestFields, ManifestFields, 0)

----------------------------------------------------------------------------
(* The locals of hips_traverse. *)

\* ARRAY_SIZE(queue).
QueueLen == 1024
\* Number of order 0 pixels enqueued first.
NbRoots == 12
\* Number of nodes visited in one run of the model.
MaxVisits == 345
\* What the callback may return: stop (negative), leave, expand.
CallbackResults == {-1, 0, 1}

\* The locals of hips_traverse after "Enqueue the first 12 pix at order 0".
\* The nodes in the queue are those of the slots (start + j) % n, j < size;
\* running holds until hips_traverse returns ret.  last_r and last_size are the
\* answer of the last callback and size after that node was taken out; lost
\* counts the slots written while they held a node still to visit.
traverse_begin ==
    [start |-> 0, size |-> NbRoots, running |-> TRUE, ret |-> 0,
     last_r |-> 0, last_size |-> NbRoots, lost |-> 0]

\* The nodes of hips_traverse: node_t {order, pix}.
node_t(order, pix) == <<order, pix>>
\* No node: the stop node of a callback that never stops.
NoNode == node_t(-1, -1)

\* The deepest order the callbacks of the model expand below (D).
MaxDepth == 2
\* A depth the queue cannot hold: 12 * 4^5 nodes.
DeepDepth == 5

\* painter_is_tile_clipped for one view: of the roots those of clip.roots
\* are in view; below, a node is out of view when its pix % 4 is in clip.low
\* (orders 1 and 2) or in clip.high (deeper orders).
painter_is_tile_clipped(clip, order, pix) ==
    IF order = 0 THEN pix \notin clip.roots
    ELSE IF order <= 2 THEN (pix % 4) \in clip.low
    ELSE (pix % 4) \in clip.high

\* The views tried.
Clips ==
    [roots : {{0}, {3, 7}}, low : {{1, 2, 3}, {0, 3}}, high : {{0, 2, 3}}]

\* The user data hips_render_traverse passes to render_traverse_visitor.
RenderUser(hp, view, render_order, split_order, flags, clip) ==
    [hips |-> hp, view |-> view, render_order |-> render_order,
     split_order |-> split_order, flags |-> flags, clip |-> clip]

\* render_traverse_visitor without "if (painter_is_tile_clipped(...))".
render_traverse_visitor_NoClip(user, order, pix) ==
    IF order < user.render_order THEN [ret |-> 1, calls |-> <<>>]
    ELSE [ret |-> 0,
          calls |-> <<<<order, pix,
                        2^(user.split_order - user.render_order)>>>>]

\* render_traverse_visitor(order, pix, user): ret is its answer, calls the
\* calls (order, pix, split) of the user callback it made.
render_traverse_visitor(user, order, pix) ==
    IF painter_is_tile_clipped(user.clip, order, pix)
    THEN [ret |-> 0, calls |-> <<>>]
    ELSE IF order < user.render_order THEN [ret |-> 1, calls |-> <<>>]
    ELSE [ret |-> 0,
          calls |-> <<<<order, pix,
                        2^(user.split_order - user.render_order)>>>>]

\* clamp(x, a, b) of the utilities, "clamped to [min, max]": written as
\* min(max(x, a), b) or as max(min(x, b), a), which differ when b < a.
ClampForms == {"minmax", "maxmin"}
IntMin(a, b) == IF a < b THEN a ELSE b
IntMax(a, b) == IF a > b THEN a ELSE b
clamp(form, x, a, b) ==
    IF form = "minmax" THEN IntMin(IntMax(x, a), b)
    ELSE IntMax(IntMin(x, b), a)

\* hips_render_traverse after hips_update, up to the call of hips_traverse:
\* view is what hips_get_render_order and "angle < 2.0 * M_PI" give for
\* the painter, hp the survey; the result is the user data.
render_split(hp, view, render_order, split_order, flags, clip) ==
    RenderUser(hp, view, render_order,
               IntMax(IF split_order = -1
                      THEN (IF "FORCE_USE_ALLSKY" \in flags THEN 2 ELSE 3)
                      ELSE split_order,
                      render_order),
               flags, clip)

render_flags(view, hp) ==
    (IF view.planet THEN {"PLANET"} ELSE {})
    \cup (IF view.render_order < -5 /\ hp.allsky_data
          THEN {"FORCE_USE_ALLSKY"} ELSE {})

hips_render_traverse(form, hp, view, split_order, clip) ==
    render_split(hp, view,
                 IntMin(clamp(form, view.render_order, hp.order_min,
                              hp.order), 9),
                 split_order, render_flags(view, hp), clip)

\* The painters tried: the order hips_get_render_order computes, and
\* whether the angle is below 2 pi.
Views ==
    {[render_order |-> -7, planet |-> FALSE],
     [render_order |-> 2, planet |-> TRUE],
     [render_order |-> 12, planet |-> TRUE]}

\* The surveys rendered: order_min, order and whether the allsky image is
\* decoded; the second has no hips_order in its properties.
RenderSurveys ==
    [order_min : {3}, order : {4, 0}, allsky_data : BOOLEAN]
    \cup [order_min : {0}, order : {11}, allsky_data : BOOLEAN]

\* The split_order arguments tried (-1: default).
SplitOrders == {-1, 5}

\* The callbacks without user data use this one.
NoUser ==
    RenderUser([order_min |-> 0, order |-> 0, allsky_data |-> FALSE],
               [render_order |-> 0, planet |-> FALSE], 0, 0, {},
               [roots |-> {}, low |-> {}, high |-> {}])

\* The callbacks tried.  A callback of kind "test" answers a negative
\* value on its stop node, 1 on the nodes of order < depth whose pix % 3 is
\* in rem, and other (0 or 2) on every other node.  A callback of kind
\* "render" is render_traverse_visitor with the user data of one
\* hips_render_traverse call; it answers 1 below render_order only.
WalkCallbacks ==
    [kind  : {"test"},
     depth : (0..MaxDepth) \cup {DeepDepth},
     rem   : {{0, 1, 2}, {0}, {1, 2}},
     other : {0, 2},
     stop  : {NoNode, node_t(0, 11), node_t(1, 5)},
     user  : {NoUser}]
    \cup {[kind |-> "render",
           depth |-> IntMax(hips_render_traverse(fm, hp, v, so, cl).render_order, 0),
           rem |-> {}, other |-> 0, stop |-> NoNode,
           user |-> hips_render_traverse(fm, hp, v, so, cl)] :
            fm \in ClampForms, hp \in RenderSurveys, v \in Views,
            so \in SplitOrders, cl \in Clips}

\* "r = callback(order, pix, user)" for the callback cb.
callback(cb, order, pix) ==
    IF cb.kind = "render"
    THEN render_traverse_visitor(cb.user, order, pix).ret
    ELSE IF node_t(order, pix) = cb.stop THEN -2
    ELSE IF order < cb.depth /\ (pix % 3) \in cb.rem THEN 1
    ELSE cb.other

\* The calls of the user callback made during callback(order, pix, user).
user_calls(cb, order, pix) ==
    IF cb.kind = "render"
    THEN render_traverse_visitor(cb.user, order, pix).calls
    ELSE <<>>

\* hips_traverse(user, callback) after "Enqueue the first 12 pix at order
\* 0": queue maps the slots written so far to their node, seen lists the
\* callback invocations made (order, pix, answer), drawn the calls of the
\* user callback of hips_render_traverse (order, pix, split), uninit tells
\* that a slot was read that was never written.
walk_begin(cb) ==
    [cb |-> cb, queue |-> [i \in 0..(NbRoots - 1) |-> node_t(0, i)],
     start |-> 0, size |-> NbRoots, running |-> TRUE, ret |-> 0,
     seen |-> <<>>, drawn |-> <<>>, uninit |-> FALSE]

\* No hips_traverse call.
WalkIdle ==
    [cb |-> [kind |-> "test", depth |-> 0, rem |-> {}, other |-> 0,
             stop |-> NoNode, user |-> NoUser],
     queue |-> [i \in {} |-> NoNode],
     start |-> 0, size |-> 0, running |-> FALSE, ret |-> 0,
     seen |-> <<>>, drawn |-> <<>>, uninit |-> FALSE]

----------------------------------------------------------------------------
(* The fallback walk on its own: the UV matrix of hips_get_tile_texture. *)

\* Longest walk (number of ancestor steps).
MaxSteps == 3
\* The pixels walked from: every path of MaxSteps quadrants.
WalkPix == 0..63
\* The input matrices: the identity hips_get_tile_texture starts from, and
\* matrices a caller of get_child_uv_mat may pass.
Mats ==
    {mat3_identity,
     Mat(2, <<<<1, 0, 1>>, <<0, 1, 0>>, <<0, 0, 2>>>>),
     Mat(1, <<<<0, -1, 1>>, <<1, 0, 0>>, <<0, 0, 1>>>>),
     Mat(1, <<<<2, 1, 0>>, <<1, 3, -1>>, <<1, 0, 1>>>>)}

\* The walk state: m0 the matrix it started from, mat the matrix now,
\* pix the pixel asked for, rend_pix and k the ancestor reached.
UvState(m0, mat, pix, rend_pix, k) ==
    [m0 |-> m0, mat |-> mat, pix |-> pix, rend_pix |-> rend_pix, k |-> k]

UvIdle == UvState(mat3_identity, mat3_identity, 0, 0, 0)

InitUV ==
    /\ cache = <<>>
    /\ hips = [h \in Hips |-> hips_create(h)]
    /\ nalloc = 0
    /\ aborted = ""
    /\ \E m \in Mats, pix \in WalkPix : uv = UvState(m, m, pix, pix, 0)
    /\ trav = traverse_begin
    /\ manifest = ManifestIdle
    /\ walk = WalkIdle

\* One turn of the loop of hips_get_tile_texture, as far as the matrix
\* goes: "get_child_uv_mat(rend_pix % 4, mat, mat); rend_pix /= 4".
WalkStep ==
    /\ uv.k < MaxSteps
    /\ uv' = [uv EXCEPT !.mat = get_child_uv_mat(uv.rend_pix % 4, @),
                        !.rend_pix = @ \div 4,
                        !.k = @ + 1]
    /\ UNCHANGED <<cache, hips, nalloc, aborted, trav, manifest, walk>>

NextUV == WalkStep

SpecUV == InitUV /\ [][NextUV]_vars

----------------------------------------------------------------------------
(* hips_traverse: the breadth first walk over a fixed queue. *)

\* The slot holds a node that is still to visit.
IsQueued(q, slot) == ((slot - q.start) % QueueLen) < q.size

\* "queue[(start + size) % n] = ...; size++", i more times.
RECURSIVE traverse_enqueue(_, _)
traverse_enqueue(q, i) ==
    IF i = 0 THEN q
    ELSE traverse_enqueue(
            [q EXCEPT !.lost = IF IsQueued(q, (q.start + q.size) % QueueLen)
                               THEN Sat(@) ELSE @,
                      !.size = @ + 1],
            i - 1)

\* traverse_expand without "if (size + 4 >= n) return -1".
traverse_expand_NoTest(q) == traverse_enqueue(q, 4)

\* "if (r == 1)": enqueue the 4 children tiles, or return -1.
traverse_expand(q) ==
    IF q.size + 4 >= QueueLen THEN [q EXCEPT !.running = FALSE, !.ret = -1]
    ELSE traverse_enqueue(q, 4)

\* The end of the loop body: "while (size)" fails, return 0.
traverse_loop(q) ==
    IF q.running /\ q.size = 0
    THEN [q EXCEPT !.running = FALSE, !.ret = 0] ELSE q

\* The loop body once the node is taken out and the callback answered r.
traverse_visit(q, r) ==
    IF r < 0 THEN [q EXCEPT !.running = FALSE, !.ret = r]
    ELSE IF r = 1 THEN traverse_loop(traverse_expand(q))
    ELSE traverse_loop(q)

\* One turn of the loop of hips_traverse; the callback answers r.
hips_traverse(q, r) ==
    traverse_visit([q EXCEPT !.start = @ + 1, !.size = @ - 1,
                             !.last_r = r, !.last_size = q.size - 1], r)

InitTraverse ==
    /\ cache = <<>>
    /\ hips = [h \in Hips |-> hips_create(h)]
    /\ nalloc = 0
    /\ aborted = ""
    /\ uv = UvIdle
    /\ trav = traverse_begin
    /\ manifest = ManifestIdle
    /\ walk = WalkIdle

\* hips_traverse visits the next node of the queue.
Visit(r) ==
    /\ trav.running
    /\ trav.start < MaxVisits
    /\ trav' = hips_traverse(trav, r)
    /\ UNCHANGED <<cache, hips, nalloc, aborted, uv, manifest, walk>>

NextTraverse == \E r \in CallbackResults : Visit(r)

SpecTraverse == InitTraverse /\ [][NextTraverse]_vars

----------------------------------------------------------------------------
(* hips_traverse with its nodes: which nodes the callback is handed. *)

\* Child i of node (order, pix) taken twice over: "pix * 4" for every i.
child_Repeated(order, pix, i) == node_t(order + 1, pix * 4)

\* "(node_t){order + 1, pix * 4 + i}".
child(order, pix, i) == node_t(order + 1, pix * 4 + i)

\* "if (r == 1)" taken for every positive answer.
expands_AnyPositive(r) == r >= 1

\* "if (r == 1)".
expands(r) == r = 1

\* "for (i = 0; i < 4; i++) {queue[(start + size) % n] = ...; size++;}"
\* from i on.
RECURSIVE walk_enqueue(_, _, _, _)
walk_enqueue(w, order, pix, i) ==
    IF i >= 4 THEN w
    ELSE walk_enqueue(
            [w EXCEPT !.queue = ((w.start + w.size) % QueueLen
                                    :> child(order, pix, i)) @@ @,
                      !.size = @ + 1],
            order, pix, i + 1)

\* The loop body of hips_traverse after "r = callback(order, pix, user)",
\* up to the loop test "while (size)".
walk_answer(w, order, pix, r) ==
    IF r < 0 THEN [w EXCEPT !.running = FALSE, !.ret = r]
    ELSE IF expands(r) /\ w.size + 4 >= QueueLen
    THEN [w EXCEPT !.running = FALSE, !.ret = -1]
    ELSE IF expands(r)
    THEN walk_enqueue(w, order, pix, 0)
    ELSE IF w.size = 0 THEN [w EXCEPT !.running = FALSE, !.ret = 0]
    ELSE w

\* "order = queue[start % n].order; pix = ...; start++; size--; r =
\* callback(order, pix, user)" on the node nd read from the queue.
walk_take(w, nd) ==
    walk_answer([w EXCEPT !.start = @ + 1, !.size = @ - 1,
                          !.seen = Append(@, <<nd[1], nd[2],
                                               callback(w.cb, nd[1], nd[2])>>),
                          !.drawn = @ \o user_calls(w.cb, nd[1], nd[2])],
                nd[1], nd[2], callback(w.cb, nd[1], nd[2]))

\* One turn of the loop of hips_traverse.  A slot never written holds
\* whatever the stack held: any node.
walk_visit(w, junk) ==
    IF (w.start % QueueLen) \in DOMAIN w.queue
    THEN walk_take(w, w.queue[w.start % QueueLen])
    ELSE walk_take([w EXCEPT !.uninit = TRUE], junk)

InitWalk ==
    /\ cache = <<>>
    /\ hips = [h \in Hips |-> hips_create(h)]
    /\ nalloc = 0
    /\ aborted = ""
    /\ uv = UvIdle
    /\ trav = traverse_begin
    /\ manifest = ManifestIdle
    /\ \E cb \in WalkCallbacks : walk = walk_begin(cb)

\* hips_traverse hands the next node of the queue to the callback.
WalkVisit ==
    /\ walk.running
    /\ \E junk \in {node_t(0, 0), node_t(1, 5)} : walk' = walk_visit(walk, junk)
    /\ UNCHANGED <<cache, hips, nalloc, aborted, uv, trav, manifest>>

NextWalk == WalkVisit

SpecWalk == InitWalk /\ [][NextWalk]_vars

\* hips_traverse runs on: the loop, and the callback, take their turn.
SpecWalkFair == SpecWalk /\ WF_vars(WalkVisit)

----------------------------------------------------------------------------
(* ini_parse_string(data, property_handler, hips) on its own. *)

InitManifest ==
    /\ cache = <<>>
    /\ hips = [h \in Hips |-> hips_create(h)]
    /\ nalloc = 0
    /\ aborted = ""
    /\ uv = UvIdle
    /\ trav = traverse_begin
    /\ walk = WalkIdle
    /\ \E file \in ManifestFiles :
        manifest = ManifestState(file, file, ManifestFields, ManifestFields, 0)

\* ini_parse_string hands the next line of the file to property_handler.
ParseLine ==
    /\ manifest.todo # <<>>
    /\ manifest' =
        [manifest EXCEPT
            !.todo = Tail(@),
            !.prev = manifest.p,
            !.p = handle_line(@, Head(manifest.todo).name,
                              Head(manifest.todo).value),
            !.n = @ + 1]
    /\ UNCHANGED <<cache, hips, nalloc, aborted, uv, trav, walk>>

NextManifest == ParseLine

SpecManifest == InitManifest /\ [][NextManifest]_vars

----------------------------------------------------------------------------
(* The state machine. *)

Init ==
    /\ cache = <<>>
    /\ hips = [h \in Hips |-> hips_create(h)]
    /\ nalloc = 0
    /\ aborted = ""
    /\ uv = UvIdle
    /\ trav = traverse_begin
    /\ manifest = ManifestIdle
    /\ walk = WalkIdle

Commit(x) ==
    /\ x.nalloc <= MaxAlloc
    /\ cache' = x.cache
    /\ hips' = x.hips
    /\ nalloc' = x.nalloc
    /\ aborted' = x.abort
    /\ UNCHANGED others

\* The consumer calls hips_is_ready(h).
IsReady(h) ==
    /\ aborted = ""
    /\ \E u \in UpdOracles(hips[h]) :
        LET r == hips_is_ready(Ctx(cache, hips, nalloc), h, u)
        IN Commit(r.x)

\* The consumer calls hips_get_tile(h, order, pix, flags, &code).
GetTile(h, order, pix, flags) ==
    /\ aborted = ""
    /\ \E u \in UpdOracles(hips[h]) :
       \E f \in TileOracles(cache, hips[h], u, order, pix, flags) :
        LET r == hips_get_tile(Ctx(cache, hips, nalloc), h, order, pix,
                               flags, u, f)
        IN Commit(r.x)

\* The renderer calls hips_get_tile_texture(h, order, pix, flags, ...).
GetTileTexture(h, order, pix, flags) ==
    /\ aborted = ""
    /\ \E u \in UpdOracles(hips[h]) :
       \E f \in TexOracles(cache, hips[h], u, order, pix, flags) :
        Commit(hips_get_tile_texture(Ctx(cache, hips, nalloc), h, order,
                                     pix, flags, u, f).x)

\* load_tile_worker: the body of the worker of a tile, run to its end.
load_tile_worker(tile, dec) ==
    [tile EXCEPT !.data = IF dec.ok THEN ImgPayload(tile.id) ELSE NULL,
                 !.flags = (@ \cup (IF dec.ok THEN {} ELSE {TILE_LOAD_ERROR}))
                           \cup dec.transp,
                 !.loader = [st |-> "done", cost |-> dec.cost],
                 !.ndec = Sat(@)]

\* The worker of the tile of entry i runs load_tile_worker.
TileWorkerRun(i) ==
    /\ aborted = ""
    /\ i \in 1..Len(cache)
    /\ cache[i].tile.loader.st = "running"
    /\ \E dec \in DecodeOutcomes :
        cache' = [cache EXCEPT ![i].tile = load_tile_worker(@, dec)]
    /\ UNCHANGED <<hips, nalloc, aborted>>
    /\ UNCHANGED others

\* load_allsky_worker: img_read_from_mem gives the image (ok) or NULL.
load_allsky_worker(allsky, ok) ==
    [allsky EXCEPT !.data = ok, !.fn = "done"]

\* The worker of the allsky image of h runs load_allsky_worker.
AllskyWorkerRun(h) ==
    /\ aborted = ""
    /\ hips[h].allsky.fn = "running"
    /\ \E ok \in BOOLEAN :
        hips' = [hips EXCEPT ![h].allsky = load_allsky_worker(@, ok)]
    /\ UNCHANGED <<cache, nalloc, aborted>>
    /\ UNCHANGED others

Next ==
    \/ \E h \in DOMAIN hips : IsReady(h)
    \/ \E h \in DOMAIN hips, c \in Calls : GetTile(h, c[1], c[2], c[3])
    \/ \E h \in DOMAIN hips, c \in TexCalls :
            GetTileTexture(h, c[1], c[2], c[3])
    \/ \E i \in DOMAIN cache : TileWorkerRun(i)
    \/ \E h \in DOMAIN hips : AllskyWorkerRun(h)

Spec == Init /\ [][Next]_vars

----------------------------------------------------------------------------
(* The consumer and the tile workers under cache pressure: one ready survey *)
(* without allsky image, threaded calls, enough tiles to fill the cache.   *)

\* Number of tile_t allocated in one run under cache pressure.
MaxRaceAlloc == 4

\* The calls made: the threaded calls on three nodes and on the key of
\* order -1 of the first.
RaceCalls ==
    {<<3, 5, {"LOAD_IN_THREAD"}>>, <<4, 20, {"LOAD_IN_THREAD"}>>,
     <<4, 21, {"LOAD_IN_THREAD"}>>,
     <<3, 5, {"FORCE_USE_ALLSKY", "LOAD_IN_THREAD"}>>}

\* The survey: its properties file gave hips_order 4 and the fetch of its
\* allsky image answered 404.
RaceSurvey(h) ==
    hips_is_ready(Ctx(<<>>, [k \in Hips |-> hips_create(k)], 0), h,
                  [props |-> [st |-> "ok",
                              m |-> [order |-> 4, order_min |-> 3,
                                     ext |-> "png"]],
                   allsky |-> 404]).x.hips[h]

InitRace ==
    /\ cache = <<>>
    /\ hips = [h \in Hips |-> RaceSurvey(h)]
    /\ nalloc = 0
    /\ aborted = ""
    /\ uv = UvIdle
    /\ trav = traverse_begin
    /\ manifest = ManifestIdle
    /\ walk = WalkIdle

CommitUpTo(x, n) ==
    /\ x.nalloc <= n
    /\ cache' = x.cache
    /\ hips' = x.hips
    /\ nalloc' = x.nalloc
    /\ aborted' = x.abort
    /\ UNCHANGED others

\* The answers of the environment under cache pressure: a fetch is
\* pending, gives the bytes, or answers 404; a decode fails, or gives a
\* large image, or a small one with a transparent quadrant.
RaceDecodes ==
    {DecodeFail, [ok |-> TRUE, cost |-> MaxCost, transp |-> {}],
     [ok |-> TRUE, cost |-> 1, transp |-> {1}]}
RaceOracles(c, hp, u, order, pix, flags) ==
    {f \in TileOracles(c, hp, u, order, pix, flags) :
        \A o \in NodeOrders :
            f[o].code \in {0, 200, 404} /\ f[o].dec \in RaceDecodes}

\* The consumer calls hips_get_tile(h, order, pix, flags, &code).
RaceGetTile(h, order, pix, flags) ==
    /\ aborted = ""
    /\ \E u \in UpdOracles(hips[h]) :
       \E f \in RaceOracles(cache, hips[h], u, order, pix, flags) :
        CommitUpTo(hips_get_tile(Ctx(cache, hips, nalloc), h, order, pix,
                                 flags, u, f).x, MaxRaceAlloc)

\* The worker of the tile of entry i runs load_tile_worker.
RaceWorkerRun(i) ==
    /\ aborted = ""
    /\ i \in 1..Len(cache)
    /\ cache[i].tile.loader.st = "running"
    /\ \E dec \in RaceDecodes :
        cache' = [cache EXCEPT ![i].tile = load_tile_worker(@, dec)]
    /\ UNCHANGED <<hips, nalloc, aborted>>
    /\ UNCHANGED others

NextRace ==
    \/ \E h \in DOMAIN hips, c \in RaceCalls : RaceGetTile(h, c[1], c[2], c[3])
    \/ \E i \in DOMAIN cache : RaceWorkerRun(i)

SpecRace == InitRace /\ [][NextRace]_vars

TypeOK ==
    /\ nalloc \in 0..MaxAlloc
    /\ aborted \in STRING
    /\ \A i \in 1..Len(cache) : cache[i].cost \in 0..MaxCost

----------------------------------------------------------------------------
(* Properties.  A property of a call is stated over every call the        *)
(* consumer can make in a reachable state and every answer the            *)
(* environment can give during it.                                        *)

\* What holds, before a call for node (order, pix) of h, of the survey, of
\* the tile of the key and of the parent tile.
PreOf(h, order, pix, flags) ==
    LET hp == hips[h]
        i == Find(cache, TileKey(hp, order, pix, flags))
        j == Find(cache, <<hp.hash, order - 1, pix \div 4>>)
    IN [ready |-> IsReadyNow(hp),
        cached |-> i # 0,
        data |-> IF i # 0 /\ cache[i].tile.loader.st = "none"
                 THEN cache[i].tile.data ELSE NULL,
        err |-> i # 0 /\ TILE_LOAD_ERROR \in cache[i].tile.flags,
        pbit |-> /\ order > hp.order_min
                 /\ j # 0
                 /\ (pix % 4) \in cache[j].tile.flags]

\* P(h, c, pre, r) holds of every call c of hips_get_tile on survey h
\* that can be made now, pre being PreOf and r the outcome of the call.
EveryGetTile(P(_, _, _, _)) ==
    aborted = "" =>
    \A h \in DOMAIN hips, c \in Calls :
    \A u \in UpdOracles(hips[h]) :
    \A f \in TileOracles(cache, hips[h], u, c[1], c[2], c[3]) :
        P(h, c, PreOf(h, c[1], c[2], c[3]),
          hips_get_tile(Ctx(cache, hips, nalloc), h, c[1], c[2], c[3], u, f))

SomeGetTile(P(_, _, _, _)) ==
    aborted = "" /\
    \E h \in DOMAIN hips, c \in Calls :
    \E u \in UpdOracles(hips[h]) :
    \E f \in TileOracles(cache, hips[h], u, c[1], c[2], c[3]) :
        P(h, c, PreOf(h, c[1], c[2], c[3]),
          hips_get_tile(Ctx(cache, hips, nalloc), h, c[1], c[2], c[3], u, f))

Returned(r) == r.x.abort = ""
TileFetched(h, c, r, code) == <<"tile", h, c[1], c[2], code>> \in r.x.fet

\* C1: a call for a key whose tile is in the cache with its payload issues
\* no fetch, runs no create_tile and returns that payload with status 200.
C1_CachedKeyIsNotResolvedAgain ==
    EveryGetTile(LAMBDA h, c, pre, r :
        pre.data # NULL =>
            /\ Returned(r)
            /\ r.code = 200
            /\ r.ret = pre.data
            /\ r.x.fet = {}
            /\ r.x.ndec = 0)

\* Some tile decoded from fetched bytes is in the cache and a call returns it.
C1_Witness ==
    SomeGetTile(LAMBDA h, c, pre, r :
        pre.data.k = "img" /\ r.ret = pre.data /\ r.code = 200)

\* C2 as stated: whenever the parent of the node is cached with the no-child
\* bit of the node set, the call returns NULL with status 404 and fetches
\* nothing.
C2_Original ==
    EveryGetTile(LAMBDA h, c, pre, r :
        pre.pbit =>
            /\ Returned(r) /\ r.ret = NULL /\ r.code = 404 /\ r.x.fet = {})

\* C2 amended: on a ready survey, for a call without HIPS_CACHED_ONLY on a
\* node whose own key is not cached and whose cached parent has the no-child
\* bit of the node set, the call returns NULL with status 404 and fetches
\* nothing.
C2_MissingQuadrantIsNotFetched ==
    EveryGetTile(LAMBDA h, c, pre, r :
        (pre.pbit /\ pre.ready /\ ~pre.cached /\ "CACHED_ONLY" \notin c[3]) =>
            /\ Returned(r) /\ r.ret = NULL /\ r.code = 404 /\ r.x.fet = {})

\* A call meets a marked quadrant of a cached parent and is answered 404.
C2_Witness ==
    SomeGetTile(LAMBDA h, c, pre, r :
        /\ pre.pbit /\ pre.ready /\ ~pre.cached /\ "CACHED_ONLY" \notin c[3]
        /\ r.code = 404 /\ r.ret = NULL)

ParentMarked(c, h, order, pix) ==
    LET j == Find(c, <<hips[h].hash, order - 1, pix \div 4>>)
    IN j # 0 /\ (pix % 4) \in c[j].tile.flags

C4_Original ==
    EveryGetTile(LAMBDA h, c, pre, r :
        (/\ pre.ready /\ ~pre.cached
         /\ (c[1] < hips[h].order_min \/ c[1] > hips[h].order)) =>
            /\ Returned(r) /\ r.ret = NULL /\ r.code = 404 /\ r.x.fet = {})

\* C4 amended: on a ready survey, for a key that is not cached and a call
\* without HIPS_CACHED_ONLY, an order below order_min, or above a max order
\* that is not 0, gives NULL, 404 and no fetch.
C4_OutOfRangeOrderIsNotFound ==
    EveryGetTile(LAMBDA h, c, pre, r :
        (/\ pre.ready /\ ~pre.cached /\ "CACHED_ONLY" \notin c[3]
         /\ \/ c[1] < hips[h].order_min
            \/ (hips[h].order # 0 /\ c[1] > hips[h].order)) =>
            /\ Returned(r) /\ r.ret = NULL /\ r.code = 404 /\ r.x.fet = {})

\* Both ends of the range are met: a call below order_min and a call above
\* a non zero max order.
C4_Witness ==
    /\ SomeGetTile(LAMBDA h, c, pre, r :
        /\ pre.ready /\ ~pre.cached /\ "CACHED_ONLY" \notin c[3]
        /\ hips[h].order # 0 /\ c[1] > hips[h].order /\ r.code = 404)
    /\ SomeGetTile(LAMBDA h, c, pre, r :
        /\ pre.ready /\ ~pre.cached /\ "CACHED_ONLY" \notin c[3]
        /\ c[1] < hips[h].order_min /\ r.code = 404)

\* C5: create_tile runs at most once for a tile and the loader of a tile is
\* finalised at most once, however often the tile is polled.
C5_DecodeAndFinaliseAtMostOnce ==
    \A i \in DOMAIN cache : cache[i].tile.ndec <= 1 /\ cache[i].tile.nfin <= 1

\* A tile loaded in a thread was decoded, finalised, and is polled again.
C5_Witness ==
    SomeGetTile(LAMBDA h, c, pre, r :
        /\ pre.cached /\ r.code = 200
        /\ \E i \in DOMAIN cache :
            /\ cache[i].key = TileKey(hips[h], c[1], c[2], c[3])
            /\ cache[i].tile.nfin = 1 /\ cache[i].tile.ndec = 1)

\* C6: a call for a key whose tile has TILE_LOAD_ERROR returns an absent
\* payload, issues no fetch and runs no create_tile, and the tile stays in
\* the cache with the error flag and no payload.
C6_DecodeErrorIsMemoized ==
    EveryGetTile(LAMBDA h, c, pre, r :
        pre.err =>
            /\ Returned(r) /\ r.ret = NULL /\ r.x.fet = {} /\ r.x.ndec = 0
            /\ LET i == Find(r.x.cache, TileKey(hips[h], c[1], c[2], c[3]))
               IN /\ i # 0
                  /\ TILE_LOAD_ERROR \in r.x.cache[i].tile.flags
                  /\ r.x.cache[i].tile.data = NULL)

\* C7: del_tile answers CACHE_KEEP for every tile whose loader is live.
C7_LiveLoaderVetoesEviction ==
    \A i \in DOMAIN cache :
        cache[i].tile.loader.st # "none" =>
            del_tile(cache[i].tile) = CACHE_KEEP

Vetoed == {i \in DOMAIN cache : del_tile(cache[i].tile) = CACHE_KEEP}

\* C8: the accounted costs sum to at most CACHE_SIZE when no entry is
\* vetoed, and exceed it by at most the cost of the vetoed entry when
\* exactly one is.
C8_CostWithinBudget ==
    /\ Vetoed = {} => SumCost(cache) <= CACHE_SIZE
    /\ \A i \in Vetoed :
        Vetoed = {i} => SumCost(cache) <= CACHE_SIZE + cache[i].cost

\* C9: no key is in the cache twice and the assert(!tile) of
\* hips_add_manual_tile does not fail.
C9_KeyMapsToOneTile ==
    /\ aborted = "" =>
        \A i, j \in DOMAIN cache : cache[i].key = cache[j].key => i = j
    /\ aborted # "hips_add_manual_tile: assert(!tile)"

AllUpdAnswers == {[props |-> pr, allsky |-> k] : pr \in PropsOutcomes, k \in Codes}

\* C10: on a survey whose error is set hips_is_ready returns false, issues
\* no fetch, starts no worker and changes nothing, whatever the fetch layer
\* would answer.
C10_ManifestErrorIsFinal ==
    aborted = "" =>
    \A h \in DOMAIN hips : hips[h].error =>
        \A u \in AllUpdAnswers :
            LET r == hips_is_ready(Ctx(cache, hips, nalloc), h, u)
            IN /\ ~r.ret /\ r.x.fet = {}
               /\ r.x.hips = hips /\ r.x.cache = cache

\* Some survey has its error set (its manifest fetch failed).
C10_Witness == aborted = "" /\ \E h \in DOMAIN hips : hips[h].error

EveryTexture(P(_, _, _, _, _)) ==
    aborted = "" =>
    \A h \in DOMAIN hips, c \in TexCalls :
    \A u \in UpdOracles(hips[h]) :
    \A f \in TexOracles(cache, hips[h], u, c[1], c[2], c[3]) :
        P(h, c, u, f,
          hips_get_tile_texture(Ctx(cache, hips, nalloc), h, c[1], c[2],
                                c[3], u, f))

SomeTexture(P(_, _, _, _, _)) ==
    aborted = "" /\
    \E h \in DOMAIN hips, c \in TexCalls :
    \E u \in UpdOracles(hips[h]) :
    \E f \in TexOracles(cache, hips[h], u, c[1], c[2], c[3]) :
        P(h, c, u, f,
          hips_get_tile_texture(Ctx(cache, hips, nalloc), h, c[1], c[2],
                                c[3], u, f))

\* The tile used has the order min(requested order, max order).
UsedAtWantedOrder(h, c, r) ==
    r.used /\ r.rend_order = TexMin(c[1], r.x.hips[h].order)

\* The exact node was asked for, after the readiness test, and hips_get_tile
\* answered NULL with a final status (not 0, not 598).
ExactIsMissing(h, c, u, f) ==
    LET e == hips_get_tile(hips_is_ready(Ctx(cache, hips, nalloc), h, u).x,
                           h, c[1], c[2], c[3], u, f)
    IN /\ c[1] <= hips[h].order
       /\ e.x.abort = "" /\ e.ret = NULL /\ e.code \notin {0, 598}

UsedTile(r) == LastTile(r.x.cache)

SameMat(m1, m2) ==
    \A r \in 1..3, c \in 1..3 : m1.a[r][c] * m2.den = m2.a[r][c] * m1.den

\* The direct two level transform of quadrants q1 then q2: scale by 1/4,
\* translation ((q1 / 2) + 2 (q2 / 2), (q1 % 2) + 2 (q2 % 2)) / 4.
TwoLevel(q1, q2) ==
    Mat(4, <<<<1, 0, (q1 \div 2) + 2 * (q2 \div 2)>>,
             <<0, 1, (q1 % 2) + 2 * (q2 % 2)>>,
             <<0, 0, 4>>>>)

RECURSIVE Pow2(_)
Pow2(k) == IF k = 0 THEN 1 ELSE 2 * Pow2(k - 1)

\* Where pix lies inside its ancestor k orders above, in units of the side
\* 2^-k of pix, computed from the ancestor down.
RECURSIVE PosInAncestor(_, _)
PosInAncestor(pix, k) ==
    IF k = 0 THEN <<0, 0>>
    ELSE LET up == PosInAncestor(pix \div 4, k - 1)
         IN <<2 * up[1] + ((pix % 4) \div 2), 2 * up[2] + ((pix % 4) % 2)>>

\* C14: for every matrix m and quadrants q1, q2, get_child_uv_mat(q1) then
\* get_child_uv_mat(q2) is the direct two level transform applied after m;
\* and after k steps of the walk from the identity every corner of the unit
\* UV square lands on the matching corner of the square of side 2^-k that
\* the pixel asked for takes up inside the ancestor reached.
C14_TwoStepsAreOneTwoLevelTransform ==
    /\ \A q1 \in 0..3, q2 \in 0..3 :
            SameMat(get_child_uv_mat(q2, get_child_uv_mat(q1, uv.mat)),
                    mat3_mul(TwoLevel(q1, q2), uv.mat))
    /\ uv.m0 = mat3_identity =>
            \A p \in {<<0, 0>>, <<0, 1>>, <<1, 0>>, <<1, 1>>} :
            \A i \in 1..2 :
                mat3_mul_vec2(uv.mat, p)[i] * Pow2(uv.k)
                    = (PosInAncestor(uv.pix, uv.k)[i] + p[i]) * uv.mat.den

\* A walk of three steps from the identity through the quadrants 3, 2, 1.
C14_Witness ==
    /\ uv.m0 = mat3_identity /\ uv.k = 3 /\ uv.pix = 27
    /\ SameMat(uv.mat, Mat(8, <<<<1, 0, 3>>, <<0, 1, 5>>, <<0, 0, 8>>>>))

\* The last callback asked for the children of its node.
Expanding == trav.start > 0 /\ trav.last_r = 1

\* What C15 and its amendment share: the queue never holds more than
\* QueueLen nodes, no node still to visit is overwritten, and when the 4
\* children do not fit hips_traverse returns a negative value at once.
TraverseQueueIsSafe ==
    /\ trav.size <= QueueLen
    /\ trav.lost = 0
    /\ (Expanding /\ trav.last_size + 4 > QueueLen) =>
            (~trav.running /\ trav.ret < 0 /\ trav.size = trav.last_size)

LastLine == manifest.file[manifest.n]

\* The fields C16 is about.
ParsedFields == {"order", "order_min", "tile_width", "release_date", "ext"}
ParsedKeys == {"hips_order", "hips_order_min", "hips_tile_width",
               "hips_release_date", "hips_tile_format"}

C17_AssertionsOfGetTileHold ==
    /\ aborted # "hips_get_tile: assert(tile && tile->data)"
    /\ aborted # "hips_get_tile: assert(!tile)"

\* The parent tile of node (order, pix) of h is in the cache and still
\* loading: its worker is not done.
ParentIsPending(h, order, pix) ==
    LET j == Find(cache, <<hips[h].hash, order - 1, pix \div 4>>)
    IN /\ order > hips[h].order_min
       /\ j # 0
       /\ cache[j].tile.loader.st \in {"init", "running"}

\* C18 as stated: a tile above order_min is fetched only while its parent
\* tile is in the cache with its decode finalised; and a call for a node
\* whose parent is still loading returns NULL with status 0 and fetches
\* nothing.
C18_Original ==
    EveryGetTile(LAMBDA h, c, pre, r :
        /\ ~r.x.orphan
        /\ (pre.ready /\ ParentIsPending(h, c[1], c[2])) =>
                /\ Returned(r) /\ r.ret = NULL /\ r.code = 0
                /\ r.x.fet = {})

\* C18 amended: a tile above order_min is fetched only while its parent
\* tile is in the cache with its decode finalised; and a call for a node
\* within the order range of the survey that is not itself in the cache,
\* whose parent is still loading, returns NULL with status 0 and fetches
\* nothing (a node above the max order is answered 404 before its parent
\* is looked at).
C18_ParentIsResolvedFirst ==
    EveryGetTile(LAMBDA h, c, pre, r :
        /\ ~r.x.orphan
        /\ (/\ pre.ready /\ ~pre.cached
            /\ ~out_of_range(hips[h], c[1])
            /\ ParentIsPending(h, c[1], c[2])) =>
                /\ Returned(r) /\ r.ret = NULL /\ r.code = 0
                /\ r.x.fet = {})

\* A call for a node in range finds its parent still loading.
C18_Witness ==
    SomeGetTile(LAMBDA h, c, pre, r :
        /\ pre.ready /\ ~pre.cached /\ "CACHED_ONLY" \notin c[3]
        /\ ~out_of_range(hips[h], c[1])
        /\ ParentIsPending(h, c[1], c[2])
        /\ Returned(r) /\ r.ret = NULL /\ r.code = 0)

\* C19: when a call without HIPS_LOAD_IN_THREAD fetched and decoded the
\* tile it returns, the cache accounts the key at the cost create_tile
\* reported; and no decoded image tile is accounted at its initial cost.
C19_SyncDecodeUpdatesCost ==
    /\ EveryGetTile(LAMBDA h, c, pre, r :
            (/\ "LOAD_IN_THREAD" \notin c[3]
             /\ TileFetched(h, c, r, 200)
             /\ Returned(r) /\ r.ret # NULL) =>
                LET i == Find(r.x.cache, TileKey(hips[h], c[1], c[2], c[3]))
                IN /\ i # 0
                   /\ r.x.cache[i].cost > TileSize
                   /\ \E d \in DecodeOutcomes :
                        /\ d.ok
                        /\ r.x.cache[i].cost = TileSize + d.cost)
    /\ \A i \in DOMAIN cache :
            (/\ cache[i].tile.data.k = "img"
             /\ cache[i].tile.loader.st = "none") =>
                cache[i].cost > TileSize

\* C20: a call with HIPS_LOAD_IN_THREAD runs no create_tile inline, for the
\* tile asked for or for its ancestors, and returns NULL with status 0 when
\* bytes came back for a tile.
C20_ThreadedCallNeverDecodesInline ==
    EveryGetTile(LAMBDA h, c, pre, r :
        "LOAD_IN_THREAD" \in c[3] =>
            /\ r.x.ndec = 0
            /\ (\E t \in r.x.fet : t[1] = "tile" /\ t[5] = 200) =>
                    (Returned(r) => (r.ret = NULL /\ r.code = 0)))

\* The tile of node (o, pix) of h, as a call with flags looks it up, is in
\* cache c with its decode finalised and a payload.
NodeIsReady(c, hp, o, pix, flags) ==
    LET i == Find(c, TileKey(hp, o, pix, flags))
    IN /\ i # 0
       /\ c[i].tile.loader.st = "none"
       /\ c[i].tile.data # NULL

\* The orders of the nodes a texture call for order may use on survey hp.
WalkOrders(hp, order) == {o \in hp.order_min..order : o <= hp.order}

\* C21: on a ready survey, when the exact node is absent (pending or not
\* found) hips_get_tile_texture uses the deepest ancestor, down to
\* order_min, that is a ready tile, and uses no tile only if none is.
C21_AbsentNodeFallsBackToAncestor ==
    EveryTexture(LAMBDA h, c, u, f, r :
        (IsReadyNow(hips[h]) /\ r.x.abort = "") =>
            /\ r.used =>
                \A o \in WalkOrders(hips[h], c[1]) :
                    o > r.rend_order =>
                        ~NodeIsReady(r.x.cache, hips[h], o,
                                     Anc(c[2], c[1] - o), c[3])
            /\ ~r.used =>
                \A o \in WalkOrders(hips[h], c[1]) :
                    ~NodeIsReady(r.x.cache, hips[h], o,
                                 Anc(c[2], c[1] - o), c[3]))

\* Cache c holds a decoded image tile of node (o, pix) of survey h.
HasImage(c, h, o, pix) ==
    \E i \in DOMAIN c :
        /\ c[i].tile.hips = h /\ c[i].tile.pos = <<o, pix>>
        /\ c[i].tile.loader.st = "none" /\ c[i].tile.data # NULL
        /\ c[i].tile.data.k = "img"

\* Texture calls that force the allsky: on node (3,5), and on node (3,13)
\* whose pix is not the pix of a virtual tile.
ForcedTexCalls ==
    {<<3, 5, {"FORCE_USE_ALLSKY", "LOAD_IN_THREAD"}>>,
     <<3, 13, {"FORCE_USE_ALLSKY", "LOAD_IN_THREAD"}>>}

\* C22: a texture call that forces the allsky on a ready survey whose
\* allsky image is decoded, when neither the node nor an ancestor down to
\* order_min is a ready tile, returns a crop of the allsky image, for every
\* pix of order_min (an order of the survey).
C22_ForcedAllskyGivesCropForEveryPix ==
    aborted = "" =>
    \A h \in DOMAIN hips, c \in ForcedTexCalls :
    \A u \in UpdOracles(hips[h]) :
    \A f \in TexOracles(cache, hips[h], u, c[1], c[2], c[3]) :
        LET r == hips_get_tile_texture(Ctx(cache, hips, nalloc), h, c[1],
                                       c[2], c[3], u, f)
        IN (/\ IsReadyNow(hips[h]) /\ hips[h].allsky.data
            /\ hips[h].allsky.fn = "null"
            /\ hips[h].order_min = c[1] /\ c[1] <= hips[h].order
            /\ r.x.abort = ""
            /\ \A o \in WalkOrders(hips[h], c[1]) :
                ~HasImage(r.x.cache, h, o, Anc(c[2], c[1] - o)))
           => r.tex.k = "allsky_tex"


\* C23: the projection is built for the node (rend_order, rend_pix) of the
\* tile used, an ancestor or the node itself, when a tile is used, and for
\* the requested (order, pix) when none is; when the survey is not ready
\* the call returns no texture, leaves the UV at their default and neither
\* fetches a tile nor touches the cache.
C23_ProjectionFollowsTheTileUsed ==
    EveryTexture(LAMBDA h, c, u, f, r :
        r.x.abort = "" =>
            /\ r.used =>
                /\ r.rend_order <= c[1]
                /\ r.rend_pix = Anc(c[2], c[1] - r.rend_order)
                /\ r.x.cache[Len(r.x.cache)].key
                       = TileKey(r.x.hips[h], r.rend_order, r.rend_pix, c[3])
            /\ ~r.used =>
                /\ r.rend_order = c[1] /\ r.rend_pix = c[2]
                /\ r.tex = NoTex /\ r.mat = mat3_identity
            /\ ~hips_is_ready(Ctx(cache, hips, nalloc), h, u).ret =>
                /\ ~r.used /\ ~r.loading_complete
                /\ r.x.cache = cache
                /\ \A t \in r.x.fet : t[1] # "tile")

\* In one state a call draws a node with the tile of its parent, and a call
\* for a node of a deeper order finds no tile at all after walking up.
C23_Witness ==
    /\ SomeTexture(LAMBDA h, c, u, f, r :
            r.x.abort = "" /\ r.used /\ r.rend_order < c[1])
    /\ SomeTexture(LAMBDA h, c, u, f, r :
            /\ r.x.abort = "" /\ ~r.used /\ ~r.loading_complete
            /\ hips_is_ready(Ctx(cache, hips, nalloc), h, u).ret
            /\ c[1] > r.x.hips[h].order_min)


\* C24: the cache entries whose key has order -1 are the virtual tiles of
\* the allsky image (position (-1, pix) with pix in 0..11, no image, of a
\* survey whose allsky image is decoded), and every other entry is keyed by
\* the position its tile records.
C24_OrderMinusOneIsReserved ==
    \A i \in DOMAIN cache :
        IF cache[i].key[2] = -1
        THEN /\ cache[i].tile.pos = <<-1, cache[i].key[3]>>
             /\ cache[i].key[3] \in 0..(NbAllsky - 1)
             /\ cache[i].tile.data.k = "allsky"
             /\ hips[cache[i].tile.hips].allsky.data
        ELSE cache[i].tile.pos = <<cache[i].key[2], cache[i].key[3]>>


\* The callback invocations of the walk that answered 1.
Expanded == {j \in 1..Len(walk.seen) : walk.seen[j][3] = 1}

\* Invocation j of the walk was made on a root, or on a child of a node of
\* an earlier invocation that answered 1.
IsRootOrChild(j) ==
    \/ walk.seen[j][1] = 0 /\ walk.seen[j][2] \in 0..(NbRoots - 1)
    \/ \E k \in 1..(j - 1) :
        /\ walk.seen[k][3] = 1
        /\ walk.seen[j][1] = walk.seen[k][1] + 1
        /\ walk.seen[j][2] \div 4 = walk.seen[k][2]

\* C25: hips_traverse hands the callback only nodes the queue was given,
\* each of them a root or a child of a node the callback answered 1 on,
\* no node twice, in non-decreasing order of depth; a negative answer ends
\* the run at once with that answer; the queue holds exactly the roots and
\* children not handed out yet, so that a run that returns 0 has handed
\* out the 12 roots and the 4 children of every node answered 1, and
\* nothing else.  Stated on the last invocation of every state of the run.
C25_TraverseVisitsRootsAndChildrenOnce ==
    LET n == Len(walk.seen) IN
    /\ ~walk.uninit
    /\ n > 0 =>
        /\ IsRootOrChild(n)
        /\ \A k \in 1..(n - 1) :
            /\ <<walk.seen[k][1], walk.seen[k][2]>>
                   # <<walk.seen[n][1], walk.seen[n][2]>>
            /\ walk.seen[k][1] <= walk.seen[n][1]
            /\ walk.seen[k][3] >= 0
        /\ walk.seen[n][3] < 0 =>
                ~walk.running /\ walk.ret = walk.seen[n][3]
    /\ (walk.running \/ walk.ret = 0) =>
            walk.size = NbRoots + 4 * Cardinality(Expanded) - n
    /\ (~walk.running /\ walk.ret = 0) => walk.size = 0

\* A run returned 0 after the callback answered 1 on nodes of order 0 and
\* 1 and 2 on other nodes.
C25_Witness ==
    /\ ~walk.running /\ walk.ret = 0 /\ walk.seen # <<>>
    /\ \E j \in Expanded : walk.seen[j][1] = 1
    /\ \E j \in 1..Len(walk.seen) : walk.seen[j][3] = 2
    /\ walk.seen[Len(walk.seen)][1] = 2


\* The number of nodes of order 0..D: 12 * (4^(D+1) - 1) / 3.
NodesDownTo(D) == (NbRoots * (4^(D + 1) - 1)) \div 3

\* C30: for a callback that never answers 1 on a node of order >= D,
\* hips_traverse makes at most 12 * (4^(D+1) - 1) / 3 callback invocations
\* and returns.
C30_TraverseTerminatesWithinBound ==
    /\ [](Len(walk.seen) <= NodesDownTo(walk.cb.depth))
    /\ <>(~walk.running)

\* A run that returned 0 after as many invocations as the bound allows for
\* D = MaxDepth.
C30_Witness ==
    /\ ~walk.running /\ walk.ret = 0
    /\ walk.cb.depth = MaxDepth
    /\ Len(walk.seen) = NodesDownTo(MaxDepth)


\* Node (order, pix) and all its ancestors are in the view of clip.
InView(clip, order, pix) ==
    \A k \in 0..order : ~painter_is_tile_clipped(clip, order - k, Anc(pix, k))

\* x, or hi when x is above hi.
AtMost(x, hi) == IF x > hi THEN hi ELSE x

\* x brought into lo..hi (lo <= hi).
Within(x, lo, hi) == IF x < lo THEN lo ELSE IF x > hi THEN hi ELSE x

\* C26: hips_render_traverse calls the user callback only on nodes of order
\* render_order that are in view with all their ancestors, with split =
\* 2^(split_order - render_order) and split_order >= render_order; a node
\* out of view is answered 0, so it is not expanded and not handed to the
\* user callback; render_order is the order computed for the view brought
\* into [order_min, order] and then to at most 9.
C26_UserCallbackOnlyAtRenderOrderInView ==
    walk.cb.kind = "render" =>
        LET u == walk.cb.user IN
        /\ u.render_order <= 9
        /\ u.hips.order_min <= u.hips.order =>
                u.render_order = AtMost(Within(u.view.render_order,
                                               u.hips.order_min, u.hips.order),
                                        9)
        /\ u.split_order >= u.render_order
        /\ \A i \in 1..Len(walk.drawn) :
            /\ walk.drawn[i][1] = u.render_order
            /\ InView(u.clip, walk.drawn[i][1], walk.drawn[i][2])
            /\ walk.drawn[i][3] = Pow2(u.split_order - u.render_order)
            /\ \E j \in 1..Len(walk.seen) :
                    /\ walk.seen[j][1] = walk.drawn[i][1]
                    /\ walk.seen[j][2] = walk.drawn[i][2]
        /\ \A j \in 1..Len(walk.seen) :
            /\ painter_is_tile_clipped(u.clip, walk.seen[j][1], walk.seen[j][2])
                    => walk.seen[j][3] = 0
            /\ walk.seen[j][1] > 0 =>
                    InView(u.clip, walk.seen[j][1] - 1, walk.seen[j][2] \div 4)

\* A render walk returned 0 at the ceiling 9 of render_order: it called the
\* user callback, and it met nodes out of view below the roots.
C26_Witness ==
    /\ walk.cb.kind = "render" /\ ~walk.running /\ walk.ret = 0
    /\ walk.cb.user.render_order = 9 /\ walk.cb.user.hips.order = 11
    /\ walk.drawn # <<>>
    /\ \E j \in 1..Len(walk.seen) :
        /\ walk.seen[j][1] > 0
        /\ painter_is_tile_clipped(walk.cb.user.clip, walk.seen[j][1],
                                   walk.seen[j][2])


\* The answers of a byte fetch that is pending or failed with a status
\* outside 4xx.
RetryCodes == {c \in Codes : c # 200 /\ c \div 100 # 4}

\* The entries of cache c, whatever their order.
Entries(c) == {c[i] : i \in DOMAIN c}

\* Every ancestor of node (order, pix) down to order_min is in the cache,
\* its decode finalised.
AncestorsSettled(h, order, pix) ==
    \A o \in hips[h].order_min..(order - 1) :
        LET j == Find(cache, <<hips[h].hash, o, Anc(pix, order - o)>>)
        IN j # 0 /\ cache[j].tile.loader.st = "none"

\* Survey h is ready and hips_update has nothing left to do on it: its
\* allsky image is decoded and its virtual tiles added, or it has none.
SurveySettled(h) == IsReadyNow(hips[h]) /\ hips[h].allsky.fn = "null"

\* From the state hips_get_tile left, every next call c on h issues the
\* byte fetch of its node.
FetchedAgain(h, c, r) ==
    \A u \in UpdOracles(r.x.hips[h]) :
    \A f \in TileOracles(r.x.cache, r.x.hips[h], u, c[1], c[2], c[3]) :
        <<"tile", h, c[1], c[2], f[c[1]].code>> \in
            hips_get_tile(Ctx(r.x.cache, r.x.hips, r.x.nalloc), h,
                          c[1], c[2], c[3], u, f).x.fet

\* C27 as stated: a call whose byte fetch for the node is pending or fails
\* outside 4xx returns NULL and leaves the cache as it found it.
C27_Original ==
    EveryGetTile(LAMBDA h, c, pre, r :
        (Returned(r) /\ \E k \in RetryCodes : TileFetched(h, c, r, k)) =>
            /\ r.ret = NULL
            /\ Entries(r.x.cache) = Entries(cache))

\* C27 amended: a call whose byte fetch for the node is pending or fails
\* outside 4xx returns NULL with that status and adds no tile of the node
\* to the cache; when the call found the survey ready with nothing left to
\* load for it, no entry has the key of the node afterwards and the next
\* call for the node issues the fetch again; the entries of the cache,
\* flags included, are those the call found when moreover every ancestor
\* of the node down to order_min was in the cache with its decode
\* finalised.
C27_FailedFetchLeavesNoTrace ==
    EveryGetTile(LAMBDA h, c, pre, r :
        \A k \in RetryCodes :
            (Returned(r) /\ TileFetched(h, c, r, k)) =>
                /\ r.ret = NULL /\ r.code = k
                /\ \A e \in Entries(r.x.cache) :
                        e.tile.pos = <<c[1], c[2]>> => e \in Entries(cache)
                /\ SurveySettled(h) =>
                    /\ Find(r.x.cache,
                            TileKey(r.x.hips[h], c[1], c[2], c[3])) = 0
                    /\ FetchedAgain(h, c, r)
                /\ (SurveySettled(h) /\ AncestorsSettled(h, c[1], c[2])) =>
                        Entries(r.x.cache) = Entries(cache))

\* The fetch of a node whose parent is in the cache fails with status 500.
C27_Witness ==
    SomeGetTile(LAMBDA h, c, pre, r :
        /\ Returned(r) /\ TileFetched(h, c, r, 500)
        /\ SurveySettled(h) /\ c[1] > hips[h].order_min
        /\ AncestorsSettled(h, c[1], c[2]))


\* Entry e is in the cache after the step as it was before it.
StaysPut(e) == \E j \in DOMAIN cache' : cache'[j] = e

\* The step is the end of the worker of the tile of entry e.
WorkerRan(e) ==
    \E j \in DOMAIN cache', dec \in DecodeOutcomes :
        cache'[j] = [e EXCEPT !.tile = load_tile_worker(@, dec)]

\* The step has polled the finished worker of the tile of entry e and
\* finalised the tile: the cost is taken over and the loader freed; the
\* payload is the one the worker left, and the call may go on to mark the
\* tile as the parent of a missing quadrant.
Finalised(e) ==
    \E j \in DOMAIN cache' :
        /\ cache'[j].key = e.key
        /\ cache'[j].cost = e.tile.loader.cost
        /\ cache'[j].tile.id = e.tile.id
        /\ cache'[j].tile.loader = NoLoader
        /\ cache'[j].tile.nfin = Sat(e.tile.nfin)
        /\ cache'[j].tile.data = e.tile.data
        /\ e.tile.flags \subseteq cache'[j].tile.flags

\* The cache c with the fields the worker writes (tile->data, tile->flags,
\* loader->cost) of the tile of entry i as they are in tile t.
Torn(c, i, t) ==
    [c EXCEPT ![i].tile.data = t.data,
              ![i].tile.flags = t.flags,
              ![i].tile.loader.cost = t.loader.cost]

\* The results a and b of one call, made with the fields the worker of the
\* tile of entry e writes as they are in e and as they are in t, do not
\* differ: the call returns the same, and leaves the same survey and the
\* same cache with the entry untouched.
SameButTorn(a, b, e, t) ==
    /\ a.ret = b.ret
    /\ a.code = b.code
    /\ a.x.hips = b.x.hips
    /\ a.x.nalloc = b.x.nalloc
    /\ \E j \in DOMAIN a.x.cache :
        /\ a.x.cache[j] = e
        /\ b.x.cache = Torn(a.x.cache, j, t)

\* No call of the consumer reads a field the running worker of the tile of
\* entry i writes: whatever the worker has written so far, the call does
\* the same.
BlindTo(i) ==
    \A h \in DOMAIN hips, c \in RaceCalls, dec \in RaceDecodes :
    \A u \in UpdOracles(hips[h]) :
    \A f \in RaceOracles(cache, hips[h], u, c[1], c[2], c[3]) :
        SameButTorn(
            hips_get_tile(Ctx(cache, hips, nalloc), h, c[1], c[2], c[3], u, f),
            hips_get_tile(Ctx(Torn(cache, i, load_tile_worker(cache[i].tile,
                                                              dec)),
                              hips, nalloc), h, c[1], c[2], c[3], u, f),
            cache[i], load_tile_worker(cache[i].tile, dec))

Outstanding(h, c, r) ==
    \/ ~IsReadyNow(hips[h])
    \/ ~IsReadyNow(r.x.hips[h])
    \/ r.x.hips[h].allsky.fn # "null"
    \/ \E q \in r.x.fet : q[5] = 0
    \/ \E i \in DOMAIN r.x.cache :
        /\ r.x.cache[i].tile.loader.st # "none"
        /\ \/ r.x.cache[i].key = TileKey(hips[h], c[1], c[2], c[3])
           \/ \E o \in 0..c[1] :
                r.x.cache[i].key = <<hips[h].hash, o, Anc(c[2], c[1] - o)>>

\* C29: a call that is allowed to fetch reports status 0 only while a fetch
\* or a decode for the node, for one of its ancestors or for the survey is
\* outstanding; a call that finds the survey ready and nothing outstanding,
\* and whose fetches are all answered, returns a definitive status (found,
\* not found or error), also when the parent of the node is not found or
\* in error.
C29_PendingOnlyWhileOutstanding ==
    EveryGetTile(LAMBDA h, c, pre, r :
        (/\ "CACHED_ONLY" \notin c[3]
         /\ Returned(r)
         /\ r.code = 0) => Outstanding(h, c, r))

====
